---- MODULE Spec2Model ----
(***************************************************************************)
(* Behavioural model of the face-swap worker repository:                   *)
(*   - utils/snowflake.py    Snowflake ID generator                        *)
(*   - alert.py              TaskManager, the task-tracking HTTP client     *)
(*   - pubsub/baseconsumer.py BaseConsumer.callback and its helpers         *)
(*   - db/client.py          FaceSwapRecord writes                         *)
(* Each component has its own specification over the shared variables.     *)
(***************************************************************************)
EXTENDS Integers, Sequences, FiniteSets, TLC

VARIABLES
    \* ---- utils/snowflake.py : Snowflake instance ----
    EPOCH,            \* self.EPOCH
    datacenter_id,    \* self.datacenter_id
    worker_id,        \* self.worker_id
    sequence,         \* self.sequence
    last_timestamp,   \* self.last_timestamp
    lock,             \* self.lock : 0 when free, else the holding thread
    threads,          \* the threads that call generate_id
    gpc,              \* gpc[th] : position of thread th inside generate_id
    timestamp,        \* timestamp[th] : the local variable `timestamp`
    reading,          \* history: reading[th], the clock reading taken at line 71
    budget,           \* calls each thread may still start (Unlimited = no cap)
    returned,         \* history: sequence of [th, id, ts, seq] returned (kept when budget is capped)
    maxIssued,        \* history: the largest ID returned so far (-1 when none)
    lastIssued,       \* history: the ID returned by the latest call (-1 when none)
    \* ---- alert.py : one TaskManager call ----
    tmOp,             \* "none" or the method being executed
    tmArg,            \* the task id the method was called with
    tmPc,             \* "idle", "loop", "done"
    attempt,          \* the loop variable `attempt`
    responses,        \* history: outcome of every HTTP request sent by the call
    sleeps,           \* history: number of time.sleep(1) pauses of the call
    tmResult,         \* the value returned by the call
    \* ---- pubsub/baseconsumer.py : BaseConsumer and one callback invocation ----
    cpc,              \* position inside callback ("idle": no invocation)
    cb,               \* the locals of callback: message, request_id, task_id, acked,
                      \* url, plus exc (class of the exception being handled),
                      \* validated (what validate_message returned), current_time
                      \* (clock reading of check_timeout), failedAt (step that raised)
                      \* and escaped (an exception left callback)
    count,            \* self.count
    unacknowledged_messages, \* self.unacknowledged_messages (its key set)
    db,               \* faceswapper table: db[request_id] = [status, result_url]
    statusLog,        \* history: statusLog[request_id] = status values written, in order
    taskCalls,        \* history: update_task invocations [task_id, status] of this callback
    taskStatus,       \* the external tracker's status of task "t1" ("none": never set)
    ackState,         \* broker side of the delivered message: "none", "leased", "acked"
    delivered,        \* number of messages delivered to callback
    deadline,         \* visibility deadline this consumer set for the message (-1: none)
    registeredAt,     \* history: clock when the message entered the map (-1: not in it)
    renewed,          \* history: lease_management called modify_ack_deadline for it
    \* ---- pubsub/baseconsumer.py, consumer_start.py : start_consumer and its caller ----
    entry,            \* "standalone" (consumer_start.py) or "pool" (baseconsumer __main__)
    mainPc,           \* the entry point's main thread: "waiting", "shutdown", "exited"
    scPc,             \* position inside start_consumer
    stop_event,       \* stop_event.is_set()
    closed,           \* self.subscriber.closed
    streaming,        \* the streaming pull of subscribe() is delivering messages
    leasePc,          \* the lease_management task: "none", "created", "sleeping", "finished"
    wakeAt,           \* clock value at which its asyncio.sleep ends (-1: not sleeping)
    retries,          \* history: number of time.sleep(CONN_RETRY_INTERVAL) waits
    topic,            \* the messages the subscription may deliver
    quota,            \* the number of deliveries the subscription makes at most
    clock,            \* time, in units of ack_deadline_seconds / 2
    \* ---- facefusion/processors/modules/face_swapper.py : one job ----
    face_selector_mode,  \* state item: "many", "one" or "reference"
    face_mappings,       \* state item: the configured mappings, as loading resolves them
    source_faces,        \* the average face of source_paths ("None": no face detected)
    reference_store,     \* get_reference_faces(): positions of the stored reference faces
    fsPc,                \* "ready", "frames" (at the head of the loop of
                         \* process_frames), "written" (a frame was processed), "done"
    fs,                  \* locals of process_frames / process_image after the preload
    many_faces,          \* positions of the faces detected in the latest frame, in order
    frame,               \* history: the swaps applied to the latest frame, in order
    \* ---- storage/manager.py, storage/config.py : one StorageManager ----
    storage_provider,    \* config.storage_provider, the selector
    config_complete,     \* the settings the selected provider requires are all non-empty
    constructs,          \* the selected provider's constructor succeeds
    providers,           \* self.providers (the registered names)
    default_provider,    \* self.default_provider ("None": not set)
    initialized,         \* self._initialized
    stOp,                \* the latest call on the manager ("none": no call yet)
    stResult,            \* what it returned or raised
    called,              \* the provider whose upload_binary it invoked ("None": none)
    \* ---- runpod_handler.py : handler(job) on the global FaceFusionHandler ----
    rhPc,                \* position inside handler ("idle": no job)
    job,                 \* the job: id, input, source_url, target_url, resolution
    rhInitialized,       \* handler_instance.initialized
    stats,               \* handler_instance.stats: total, succeeded, failed
    result,              \* the ProcessingResult of process_request
    rhExc,               \* the exception handler's `except` caught ("none")
    response,            \* the dict handler returns, as a function of its keys
    started,             \* history: what process_request began for the job
    \* ---- fusion_manager.py : FaceFusionManager.process_face_swap ----
    fmPc,                \* position inside process_face_swap ("idle": no call)
    request,             \* what the two URLs of the ProcessRequest deliver
    temp_dir,            \* the directory of mkdtemp: "none", "exists", "removed"
    files,               \* os.listdir(temp_dir)
    error_code,          \* what headless_conditional_process returned (-1: not run)
    fmExc,               \* the exception `except Exception` caught ("none")
    fmResponse,          \* the ProcessResponse returned (NoResponse: not yet)
    warned,              \* history: the cleanup logged "Failed to clean up temp dir"
    fmCalls,             \* history: number of calls started
    \* ---- utils/ffmpeg.py : get_file_info(file_path) ----
    gfPc,                \* position inside get_file_info ("idle": no call)
    media,               \* the file at file_path, as ffprobe and PIL describe it
    img,                 \* width and height of `img` (image) or of the locals (video)
    gfOps,               \* history: the rewrites of the file, in order
    gfOutcome,           \* "none", the media type returned, or the exception raised
    \* ---- bucket.py, storage/providers/gcs.py, cloudflare_r2.py : upload_file ----
    upPc,                \* position inside upload_file ("idle": no call)
    uploader,            \* the class whose upload_file runs
    source_file_name,    \* the argument source_file_name
    local_files,         \* the files on the local disk
    bucket_objects,      \* the bucket: the sources whose content was stored
    existed,             \* history: the source file existed when the call began
    upOutcome,           \* "none", "returned" (a URL) or "raised"
    \* ---- pubsub/baseconsumer.py : process_task and handle_task_info ----
    ptPc,   \* position inside process_task ("idle": no call)
    task_data,   \* what task_manager.get_task_result(detect_id) returned
    info,   \* what handle_task_info returned or raised
    ptFiles,   \* the temporary files of the call that exist
    ptOps,   \* history: the downloads, the swap, the conversion and the upload done
    ptResult,  \* "none", the URL returned or the exception class raised
    \* ---- pubsub/baseconsumer.py : the threads of one consumer at its lock, counter and map ----
    consLock,   \* the holder of self.lock: "free" or "callback"
    lkPc,   \* position of the subscriber thread inside callback ("idle": no call)
    iterSize,   \* the size of the map when the lease loop began to iterate it; -1: not iterating
    raced,   \* history: the map changed while the lease loop was iterating it
    iterError,  \* history: the iteration raised RuntimeError
    \* ---- main2.py : ModelSwapper.process on the consumers of one process ----
    globals,   \* facefusion.globals: for each job parameter, the consumer whose call wrote it (0: none yet)
    poolPc    \* position of each consumer inside ModelSwapper.process ("idle": no call)

snowVars == <<EPOCH, datacenter_id, worker_id, sequence, last_timestamp, lock,
              threads, gpc, timestamp, reading, budget, returned, maxIssued, lastIssued>>
tmVars   == <<tmOp, tmArg, tmPc, attempt, responses, sleeps, tmResult>>
consVars == <<cpc, cb, count, unacknowledged_messages, db, statusLog, taskCalls,
              taskStatus, ackState, delivered>>
leaseVars == <<deadline, registeredAt, renewed>>
rtVars   == <<entry, mainPc, scPc, stop_event, closed, streaming, leasePc, wakeAt,
              retries, topic, quota, clock>>
fsVars   == <<face_selector_mode, face_mappings, source_faces, reference_store, fsPc,
              fs, many_faces, frame>>
stVars   == <<storage_provider, config_complete, constructs, providers,
              default_provider, initialized, stOp, stResult, called>>
rhVars   == <<rhPc, job, rhInitialized, stats, result, rhExc, response, started>>
fmVars   == <<fmPc, request, temp_dir, files, error_code, fmExc, fmResponse, warned,
              fmCalls>>
gfVars   == <<gfPc, media, img, gfOps, gfOutcome>>
upVars   == <<upPc, uploader, source_file_name, local_files, bucket_objects, existed,
              upOutcome>>
ptVars == <<ptPc, task_data, info, ptFiles, ptOps, ptResult>>
lkVars == <<consLock, lkPc, iterSize, raced, iterError>>
poolVars == <<globals, poolPc>>
vars == <<snowVars, tmVars, consVars, leaseVars, rtVars, fsVars, stVars, rhVars,
          fmVars, gfVars, upVars,
          ptVars,
          lkVars,
          poolVars>>

\* What the actions of one component leave alone.
notSnow == <<tmVars, consVars, leaseVars, rtVars, fsVars, stVars, rhVars, fmVars, gfVars,
             upVars,
             ptVars,
             lkVars,
             poolVars>>
notTM   == <<snowVars, consVars, leaseVars, rtVars, fsVars, stVars, rhVars, fmVars, gfVars,
             upVars,
             ptVars,
             lkVars,
             poolVars>>
notCons == <<snowVars, tmVars, rtVars, fsVars, stVars, rhVars, fmVars, gfVars,
             upVars,
             ptVars,
             lkVars,
             poolVars>>
notRt   == <<snowVars, tmVars, consVars, leaseVars, fsVars, stVars, rhVars, fmVars, gfVars,
             upVars,
             ptVars,
             lkVars,
             poolVars>>
notFs   == <<snowVars, tmVars, consVars, leaseVars, rtVars, stVars, rhVars, fmVars, gfVars,
             upVars,
             ptVars,
             lkVars,
             poolVars>>
notSt   == <<snowVars, tmVars, consVars, leaseVars, rtVars, fsVars, rhVars, fmVars, gfVars,
             upVars,
             ptVars,
             lkVars,
             poolVars>>
notRh   == <<snowVars, tmVars, consVars, leaseVars, rtVars, fsVars, stVars, fmVars, gfVars,
             upVars,
             ptVars,
             lkVars,
             poolVars>>
notFm   == <<snowVars, tmVars, consVars, leaseVars, rtVars, fsVars, stVars, rhVars,
             gfVars, upVars,
             ptVars,
             lkVars,
             poolVars>>
notGf   == <<snowVars, tmVars, consVars, leaseVars, rtVars, fsVars, stVars, rhVars,
             fmVars, upVars,
             ptVars,
             lkVars,
             poolVars>>
notUp   == <<snowVars, tmVars, consVars, leaseVars, rtVars, fsVars, stVars, rhVars,
             fmVars, gfVars,
             ptVars,
             lkVars,
             poolVars>>
notPt == <<snowVars, tmVars, consVars, leaseVars, rtVars, fsVars, stVars, rhVars, fmVars, gfVars, upVars,
             lkVars,
             poolVars>>
notLk == <<snowVars, tmVars, consVars, leaseVars, rtVars, fsVars, stVars, rhVars, fmVars, gfVars, upVars, ptVars,
             poolVars>>
notLkCons == <<snowVars, tmVars, rtVars, fsVars, stVars, rhVars, fmVars, gfVars, upVars, ptVars,
             poolVars>>
notLkRt == <<snowVars, tmVars, consVars, fsVars, stVars, rhVars, fmVars, gfVars, upVars, ptVars,
             poolVars>>
notPool == <<snowVars, tmVars, consVars, leaseVars, rtVars, fsVars, stVars, rhVars, fmVars, gfVars, upVars, ptVars, lkVars>>

(***************************************************************************)
(* Integer bit operations, as Python computes them on non-negative ints.   *)
(***************************************************************************)
RECURSIVE Pow2(_)
Pow2(n) == IF n = 0 THEN 1 ELSE 2 * Pow2(n - 1)

ShiftLeft(a, n) == a * Pow2(n)
ShiftRight(a, n) == a \div Pow2(n)

RECURSIVE BitOr(_, _)
BitOr(a, b) ==
    IF a = 0 THEN b
    ELSE IF b = 0 THEN a
    ELSE (IF (a % 2 = 1) \/ (b % 2 = 1) THEN 1 ELSE 0) + 2 * BitOr(a \div 2, b \div 2)

RECURSIVE BitAnd(_, _)
BitAnd(a, b) ==
    IF a = 0 \/ b = 0 THEN 0
    ELSE (IF (a % 2 = 1) /\ (b % 2 = 1) THEN 1 ELSE 0) + 2 * BitAnd(a \div 2, b \div 2)

(***************************************************************************)
(* utils/snowflake.py                                                      *)
(***************************************************************************)
DATACENTER_ID_BITS == 5
WORKER_ID_BITS == 5
SEQUENCE_BITS == 12

\* -1 ^ (-1 << bits)
MaxOfBits(bits) == Pow2(bits) - 1
MAX_DATACENTER_ID == MaxOfBits(DATACENTER_ID_BITS)
MAX_WORKER_ID == MaxOfBits(WORKER_ID_BITS)
MAX_SEQUENCE == MaxOfBits(SEQUENCE_BITS)

DATACENTER_ID_SHIFT_Overlap == SEQUENCE_BITS
DATACENTER_ID_SHIFT == SEQUENCE_BITS + WORKER_ID_BITS
WORKER_ID_SHIFT == SEQUENCE_BITS
TIMESTAMP_SHIFT == SEQUENCE_BITS + WORKER_ID_BITS + DATACENTER_ID_BITS

\* Bounds of the generator model.
MaxClock == 2          \* clock readings are EPOCH .. EPOCH + MaxClock
MaxCalls == 2          \* calls per thread in the multi-threaded specification
Unlimited == 0 - 1

\* Constructor arguments <<epoch, datacenter_id, worker_id>> of the generators checked.
Generators == {<<0, 0, 10>>, <<0, 16, 1>>, <<7, 21, 31>>, <<7, 31, 31>>}

\* Lines 95-98: the module-level generator with the default ids.
DefaultGenerator == {<<7, 31, 31>>}
AllThreads == {1, 2}

\* int(time.time() * 1000): any reading, also one earlier than the previous
ClockReadings == EPOCH .. (EPOCH + MaxClock)

\* Lines 87-90: the composition of the ID.
ComposeId(ts, seq) ==
    BitOr(BitOr(BitOr(ShiftLeft(ts - EPOCH, TIMESTAMP_SHIFT),
                      ShiftLeft(datacenter_id, DATACENTER_ID_SHIFT)),
                ShiftLeft(worker_id, WORKER_ID_SHIFT)),
          seq)

\* Snowflake.__init__ : the state after construction.
SnowInit(gens, ths, b) ==
    /\ \E g \in gens :
          /\ ~(g[2] > MAX_DATACENTER_ID \/ g[2] < 0)
          /\ ~(g[3] > MAX_WORKER_ID \/ g[3] < 0)
          /\ EPOCH = g[1]
          /\ datacenter_id = g[2]
          /\ worker_id = g[3]
    /\ sequence = 0
    /\ last_timestamp = -1
    /\ lock = 0
    /\ threads = ths
    /\ gpc = [th \in AllThreads |-> "idle"]
    /\ timestamp = [th \in AllThreads |-> -1]
    /\ reading = [th \in AllThreads |-> -1]
    /\ budget = [th \in AllThreads |-> b]
    /\ returned = <<>>
    /\ maxIssued = -1
    /\ lastIssued = -1

\* `with self.lock:` can be entered only while no thread holds the lock.
LockFreeNoLock(th) == TRUE
LockFree(th) == lock = 0

\* A thread calls generate_id and blocks on `with self.lock`.
Call(th) ==
    /\ UNCHANGED notSnow
    /\ th \in threads
    /\ gpc[th] = "idle"
    /\ budget[th] # 0
    /\ budget' = [budget EXCEPT ![th] = IF @ = Unlimited THEN @ ELSE @ - 1]
    /\ gpc' = [gpc EXCEPT ![th] = "lock"]
    /\ UNCHANGED <<EPOCH, datacenter_id, worker_id, sequence, last_timestamp, lock,
                   threads, timestamp, reading, returned, maxIssued, lastIssued>>

\* Line 70: acquire the lock.
Acquire(th) ==
    /\ UNCHANGED notSnow
    /\ gpc[th] = "lock"
    /\ LockFree(th)
    /\ lock' = th
    /\ gpc' = [gpc EXCEPT ![th] = "read"]
    /\ UNCHANGED <<EPOCH, datacenter_id, worker_id, sequence, last_timestamp,
                   threads, timestamp, reading, budget, returned, maxIssued, lastIssued>>

\* Lines 71-75: read the clock, pin a reading that moved backward.
PinnedNoPin(t) == t
Pinned(t) == IF t < last_timestamp THEN last_timestamp ELSE t

ReadClock(th) ==
    /\ UNCHANGED notSnow
    /\ gpc[th] = "read"
    /\ \E t \in ClockReadings :
          /\ reading' = [reading EXCEPT ![th] = t]
          /\ timestamp' = [timestamp EXCEPT ![th] = Pinned(t)]
    /\ gpc' = [gpc EXCEPT ![th] = "seq"]
    /\ UNCHANGED <<EPOCH, datacenter_id, worker_id, sequence, last_timestamp, lock,
                   threads, budget, returned, maxIssued, lastIssued>>

\* Lines 77-83: advance or reset the sequence.
NeedsWaitNever(seq) == FALSE
NeedsWait(seq) == seq = 0

UpdateSequence(th) ==
    /\ UNCHANGED notSnow
    /\ gpc[th] = "seq"
    /\ IF timestamp[th] = last_timestamp
       THEN LET s == BitAnd(sequence + 1, MAX_SEQUENCE) IN
            /\ sequence' = s
            /\ gpc' = [gpc EXCEPT ![th] = IF NeedsWait(s) THEN "wait" ELSE "store"]
       ELSE /\ sequence' = 0
            /\ gpc' = [gpc EXCEPT ![th] = "store"]
    /\ UNCHANGED <<EPOCH, datacenter_id, worker_id, last_timestamp, lock,
                   threads, timestamp, reading, budget, returned, maxIssued, lastIssued>>

\* Lines 55-62 and 81: _wait_next_millis, one reading of the clock per step,
\* kept in `timestamp`; the loop ends with the first reading after
\* last_timestamp.
WaitNextMillis(th) ==
    /\ UNCHANGED notSnow
    /\ gpc[th] = "wait"
    /\ \E t \in ClockReadings :
          /\ timestamp' = [timestamp EXCEPT ![th] = t]
          /\ gpc' = [gpc EXCEPT ![th] = IF t <= last_timestamp THEN "wait" ELSE "store"]
    /\ UNCHANGED <<EPOCH, datacenter_id, worker_id, sequence, last_timestamp, lock,
                   threads, reading, budget, returned, maxIssued, lastIssued>>

\* Lines 85-92: store last_timestamp, compose the ID, leave the `with` block
\* and return the ID.
StoreAndReturn(th) ==
    /\ UNCHANGED notSnow
    /\ gpc[th] = "store"
    /\ last_timestamp' = timestamp[th]
    /\ LET id == ComposeId(timestamp[th], sequence) IN
         /\ lastIssued' = id
         /\ maxIssued' = IF id > maxIssued THEN id ELSE maxIssued
         /\ returned' = IF budget[th] = Unlimited THEN returned
                        ELSE Append(returned, [th |-> th, id |-> id,
                                               ts |-> timestamp[th], seq |-> sequence])
    /\ lock' = IF lock = th THEN 0 ELSE lock
    /\ gpc' = [gpc EXCEPT ![th] = "idle"]
    /\ timestamp' = [timestamp EXCEPT ![th] = -1]
    /\ reading' = [reading EXCEPT ![th] = -1]
    /\ UNCHANGED <<EPOCH, datacenter_id, worker_id, sequence, threads, budget>>

\* A generator that has already served calls: any (last_timestamp, sequence)
\* pair is reached by sequence + 1 calls inside one millisecond.
SnowInitServed(ths, b) ==
    /\ \E g \in Generators :
          /\ ~(g[2] > MAX_DATACENTER_ID \/ g[2] < 0)
          /\ ~(g[3] > MAX_WORKER_ID \/ g[3] < 0)
          /\ EPOCH = g[1]
          /\ datacenter_id = g[2]
          /\ worker_id = g[3]
    /\ \/ /\ sequence = 0
          /\ last_timestamp = -1
          /\ returned = <<>>
          /\ maxIssued = -1
          /\ lastIssued = -1
       \/ /\ sequence \in {MAX_SEQUENCE - 1, MAX_SEQUENCE}
          /\ last_timestamp = EPOCH
          /\ returned = <<[th |-> 0, id |-> ComposeId(last_timestamp, sequence),
                          ts |-> last_timestamp, seq |-> sequence]>>
          /\ maxIssued = ComposeId(last_timestamp, sequence)
          /\ lastIssued = ComposeId(last_timestamp, sequence)
    /\ lock = 0
    /\ threads = ths
    /\ gpc = [th \in AllThreads |-> "idle"]
    /\ timestamp = [th \in AllThreads |-> -1]
    /\ reading = [th \in AllThreads |-> -1]
    /\ budget = [th \in AllThreads |-> b]

(***************************************************************************)
(* alert.py : TaskManager                                                  *)
(***************************************************************************)
TMIdle ==
    /\ tmOp = "none"
    /\ tmArg = "none"
    /\ tmPc = "idle"
    /\ attempt = 0
    /\ responses = <<>>
    /\ sleeps = 0
    /\ tmResult = "none"

TMOps == {"create_task", "update_task", "get_task_result"}

\* Task ids (for create_task: client ids) the calls are made with.
TMArgs == {"t1", "t2"}

\* HTTP status codes the task-tracking service answers with.
StatusCodes == {200, 404, 500, 503}

\* Shapes of a 2xx body as create_task reads it (lines 42-44).
Bodies(op) ==
    IF op = "create_task"
    THEN {"task_id", "empty_task_id", "no_task_id", "no_data"}
    ELSE {"json"}

\* What requests.post / requests.get can do: return a response, or raise a
\* RequestException that carries a response status (0: no response).
Outcomes(op) ==
    {[kind |-> "response", status |-> sc, body |-> b] :
        sc \in {200}, b \in Bodies(op)}
    \cup {[kind |-> "response", status |-> sc, body |-> "error"] :
        sc \in StatusCodes \ {200}}
    \cup {[kind |-> "exception", status |-> sc, body |-> "none"] : sc \in {0, 503}}

\* Lines 13-17.
IsServerErrorNever(status_code) == FALSE
IsServerError(status_code) == 500 <= status_code /\ status_code < 600

\* response.raise_for_status() raises HTTPError for 4xx and 5xx.
RaisesForStatus(status_code) == 400 <= status_code /\ status_code < 600

\* range(2)
Attempts == 2

\* The value returned from the except branch (lines 56, 94, 155).
FailValue(op) == IF op = "update_task" THEN "False" ELSE "None"

\* The value returned after raise_for_status passed (lines 42-51, 88-89, 148-150).
\* A body without `data` makes response_data.get raise AttributeError, which
\* is no RequestException and leaves the call.
SuccessValue(op, arg, body) ==
    IF op = "create_task"
    THEN CASE body = "task_id" -> "task_id"
           [] body = "empty_task_id" -> "None"
           [] body = "no_task_id" -> "None"
           [] OTHER -> "AttributeError"
    ELSE IF op = "update_task" THEN "True"
    ELSE "task_data"

Continue == [next |-> "continue", sleep |-> 1, result |-> "none"]
Returns(v) == [next |-> "return", sleep |-> 0, result |-> v]

\* The except branch without the status test: any first failure is retried.
ExceptRetriesAll(op, att, status_code) ==
    IF att = 1 THEN Returns(FailValue(op)) ELSE Continue

\* except requests.RequestException (lines 53-58, 91-96, 152-157).
Except(op, att, status_code) ==
    IF att = 1 \/ ~IsServerError(status_code)
    THEN Returns(FailValue(op))
    ELSE Continue

\* One iteration of the for loop (lines 32-58, 79-96, 138-157).
Iteration(op, arg, att, o) ==
    IF o.kind = "response"
    THEN IF IsServerError(o.status) /\ att = 0
         THEN Continue
         ELSE IF RaisesForStatus(o.status)
              THEN Except(op, att, o.status)
              ELSE Returns(SuccessValue(op, arg, o.body))
    ELSE Except(op, att, o.status)

\* A caller invokes one of the three methods.
TMCall ==
    /\ UNCHANGED notTM
    /\ tmPc \in {"idle", "done"}
    /\ \E op \in TMOps, arg \in TMArgs :
          /\ tmOp' = op
          /\ tmArg' = arg
    /\ tmPc' = "loop"
    /\ attempt' = 0
    /\ responses' = <<>>
    /\ sleeps' = 0
    /\ tmResult' = "none"

\* One pass through the loop body: send the request, then return, or pause
\* one second and go on; a loop that runs out of attempts returns None.
TMAttempt ==
    /\ UNCHANGED notTM
    /\ tmPc = "loop"
    /\ attempt < Attempts
    /\ \E o \in Outcomes(tmOp) :
          LET it == Iteration(tmOp, tmArg, attempt, o) IN
          /\ responses' = Append(responses, o)
          /\ sleeps' = sleeps + it.sleep
          /\ IF it.next = "return"
             THEN /\ tmPc' = "done"
                  /\ tmResult' = it.result
                  /\ attempt' = attempt
             ELSE /\ attempt' = attempt + 1
                  /\ tmPc' = IF attempt + 1 < Attempts THEN "loop" ELSE "done"
                  /\ tmResult' = IF attempt + 1 < Attempts THEN "none" ELSE "None"
    /\ UNCHANGED <<tmOp, tmArg>>

(***************************************************************************)
(* pubsub/baseconsumer.py : BaseConsumer                                   *)
(***************************************************************************)
\* Bounds of the consumer model.
MaxTime == 2           \* clock readings and deadlines are 0 .. MaxTime
MaxDeliveries == 2     \* messages delivered to callback in one behaviour

Times == 0 .. MaxTime

NoMessage == [body |-> "none"]

\* timeout_at of a message: absent, the empty string, a string that is not
\* "%Y-%m-%d %H:%M:%S", or a well-formed UTC time.
TimeoutAts ==
    {[kind |-> k, t |-> 0] : k \in {"absent", "empty", "malformed"}}
    \cup {[kind |-> "time", t |-> t] : t \in Times}

\* Messages the subscription can deliver. body "no_data": message.data is
\* None; "undecodable": json.loads raises; "json": a JSON object whose fields
\* are present or not. A present detect_id / source_url / target_url has the
\* value "d1" / "s1" / "g1".
Messages ==
    {[body |-> b, message_id |-> "m1", source_url |-> FALSE, detect_id |-> FALSE,
      target_url |-> FALSE, timeout_at |-> [kind |-> "absent", t |-> 0],
      task_id |-> "absent"] : b \in {"no_data", "undecodable"}}
    \cup
    {[body |-> "json", message_id |-> "m1", source_url |-> s, detect_id |-> d,
      target_url |-> g, timeout_at |-> ta, task_id |-> ti] :
        s \in BOOLEAN, d \in BOOLEAN, g \in BOOLEAN, ta \in TimeoutAts,
        ti \in {"absent", "", "t1"}}

\* The locals of callback as lines 425-429 set them.
FreshLocals(m) ==
    [message |-> m, request_id |-> 0, task_id |-> "None", acked |-> FALSE,
     url |-> "", exc |-> "none", failedAt |-> "none", validated |-> <<>>,
     current_time |-> 0, escaped |-> FALSE]

\* BaseConsumer.__init__, an empty table and an untouched tracker.
ConsIdle ==
    /\ cpc = "idle"
    /\ cb = FreshLocals(NoMessage)
    /\ count = 0
    /\ unacknowledged_messages = {}
    /\ db = <<>>
    /\ statusLog = <<>>
    /\ taskCalls = <<>>
    /\ taskStatus = "none"
    /\ ackState = "none"
    /\ delivered = 0
    /\ deadline = 0 - 1
    /\ registeredAt = 0 - 1
    /\ renewed = FALSE

\* check_timeout, lines 161-185: the exception class raised inside the try
\* block, "none" when the function reaches `return True`.
Expired(now, t) == now > t

CheckTimeoutBody(timeout_at, now) ==
    IF timeout_at.kind = "empty" THEN "ValueError"
    ELSE IF timeout_at.kind = "malformed" THEN "ValueError"
    ELSE IF Expired(now, timeout_at.t) THEN "TimeoutError"
    ELSE "none"

\* check_timeout, lines 187-192: `except ValueError` re-raises ValueError,
\* `except Exception` turns every other class, TimeoutError included, into a
\* plain Exception.
CheckTimeoutHandlers(raised) ==
    IF raised = "none" THEN "none"
    ELSE IF raised = "ValueError" THEN "ValueError"
    ELSE "Exception"

check_timeout(timeout_at, now) == CheckTimeoutHandlers(CheckTimeoutBody(timeout_at, now))

\* validate_message, lines 195-225: [raised, value]; value is the tuple
\* (detect_id, source_url, target_url, task_id).
DetectIdCheckSkipped(m) == FALSE
DetectIdMissing(m) == ~m.detect_id

validate_message(m, now) ==
    IF m.body \in {"no_data", "undecodable"}
    THEN [raised |-> "ValueError", value |-> <<>>]
    ELSE IF ~m.source_url THEN [raised |-> "ValueError", value |-> <<>>]
    ELSE IF DetectIdMissing(m) THEN [raised |-> "ValueError", value |-> <<>>]
    ELSE IF m.timeout_at.kind = "absent" THEN [raised |-> "ValueError", value |-> <<>>]
    ELSE IF m.task_id = "absent" \/ m.task_id = ""
         THEN [raised |-> "ValueError", value |-> <<>>]
    ELSE IF check_timeout(m.timeout_at, now) # "none"
         THEN [raised |-> check_timeout(m.timeout_at, now), value |-> <<>>]
    ELSE [raised |-> "none",
          value |-> <<IF m.detect_id THEN "d1" ELSE "",
                      IF m.source_url THEN "s1" ELSE "",
                      IF m.target_url THEN "g1" ELSE "",
                      m.task_id>>]

\* RequestsDatabase.create_face_swap_request: insert a row with status pending.
create_face_swap_request(table) == Append(table, [status |-> "pending", result_url |-> ""])

\* RequestsDatabase.update_face_swap_status: an unconditional UPDATE of the row.
update_face_swap_status(table, rid, status, result_url) ==
    [table EXCEPT ![rid] = [status |-> status, result_url |-> result_url]]

\* The handler callback enters for an exception class: `except TimeoutError`
\* (lines 500-516) writes timeout, `except Exception` (518-533) writes failed.
HandlerStatusAlwaysTimeout(cls) == "timeout"
HandlerStatus(cls) == IF cls = "TimeoutError" THEN "timeout" ELSE "failed"

\* An exception of class cls raised by the step named `step` inside the try block.
Raise(cls, step) ==
    /\ cb' = [cb EXCEPT !.exc = cls, !.failedAt = step]
    /\ cpc' = "except"

\* task_manager.update_task(task_id, status): the call is made; the tracker
\* takes the status when the call succeeds (update_task returns false otherwise
\* and callback ignores the value).
UpdateTask(tid, status) ==
    /\ taskCalls' = Append(taskCalls, [task_id |-> tid, status |-> status])
    /\ \E ok \in BOOLEAN : taskStatus' = IF ok THEN status ELSE taskStatus

\* Pub/Sub delivers a message: lines 424-431.
Deliver ==
    /\ UNCHANGED <<notCons, leaseVars>>
    /\ streaming
    /\ cpc = "idle"
    /\ delivered < quota
    /\ \E m \in topic : cb' = FreshLocals(m)
    /\ delivered' = delivered + 1
    /\ count' = count + 1
    /\ ackState' = "leased"
    /\ taskCalls' = <<>>
    /\ cpc' = "validate"
    /\ UNCHANGED <<unacknowledged_messages, db, statusLog, taskStatus>>

\* Line 432.
Validate ==
    /\ UNCHANGED <<notCons, leaseVars>>
    /\ cpc = "validate"
    /\ \E now \in Times :
          LET v == validate_message(cb.message, now) IN
          IF v.raised # "none"
          THEN /\ cb' = [cb EXCEPT !.exc = v.raised, !.failedAt = "validate",
                                   !.current_time = now]
               /\ cpc' = "except"
          ELSE /\ cb' = [cb EXCEPT !.validated = v.value, !.task_id = v.value[4],
                                   !.current_time = now]
               /\ cpc' = "create"
    /\ UNCHANGED <<count, unacknowledged_messages, db, statusLog, taskCalls,
                   taskStatus, ackState, delivered>>

\* Lines 435-441.
CreateRecord ==
    /\ UNCHANGED <<notCons, leaseVars>>
    /\ cpc = "create"
    /\ \/ /\ db' = create_face_swap_request(db)
          /\ statusLog' = Append(statusLog, <<"pending">>)
          /\ cb' = [cb EXCEPT !.request_id = Len(db) + 1]
          /\ cpc' = "task_running"
       \/ /\ Raise("SQLAlchemyError", "create")
          /\ UNCHANGED <<db, statusLog>>
    /\ UNCHANGED <<count, unacknowledged_messages, taskCalls, taskStatus, ackState,
                   delivered>>

\* Lines 446-450.
TaskRunning ==
    /\ UNCHANGED <<notCons, leaseVars>>
    /\ cpc = "task_running"
    /\ UpdateTask(cb.task_id, "running")
    /\ cpc' = "lease"
    /\ UNCHANGED <<cb, count, unacknowledged_messages, db, statusLog, ackState,
                   delivered>>

\* conf.py line 46, in clock units: one unit is half the deadline.
ack_deadline_seconds == 2

\* Lines 550 and 556: `ack_deadline_seconds / 2`.
HalfDeadline == ack_deadline_seconds \div 2

\* Lines 453-461: register the message, then extend its lease.
ExtendLease ==
    /\ UNCHANGED notCons
    /\ cpc = "lease"
    /\ unacknowledged_messages' = unacknowledged_messages \cup {cb.message.message_id}
    /\ registeredAt' = clock
    /\ \/ /\ cpc' = "db_running"
          /\ deadline' = clock + ack_deadline_seconds
          /\ UNCHANGED cb
       \/ /\ Raise("GoogleAPICallError", "lease")
          /\ UNCHANGED deadline
    /\ UNCHANGED renewed
    /\ UNCHANGED <<count, db, statusLog, taskCalls, taskStatus, ackState, delivered>>

\* A write of `status` to the record of this callback, or SQLAlchemyError.
WriteStatus(status, result_url, step, next) ==
    \/ /\ db' = update_face_swap_status(db, cb.request_id, status, result_url)
       /\ statusLog' = [statusLog EXCEPT ![cb.request_id] = Append(@, status)]
       /\ cpc' = next
       /\ UNCHANGED cb
    \/ /\ Raise("SQLAlchemyError", step)
       /\ UNCHANGED <<db, statusLog>>

\* Lines 464-467. request_id is None when create_face_swap_request returned
\* None; the UPDATE then matches no row.
DbRunning ==
    /\ UNCHANGED <<notCons, leaseVars>>
    /\ cpc = "db_running"
    /\ WriteStatus("running", "", "db_running", "process")
    /\ UNCHANGED <<count, unacknowledged_messages, taskCalls, taskStatus, ackState,
                   delivered>>

\* Exception classes that leave process_task: ValueError (detection info,
\* file size, missing result, failed upload), requests' RequestException
\* (download) and CalledProcessError (ffmpeg).
ProcessTaskErrors == {"ValueError", "RequestException", "CalledProcessError"}

\* Lines 470-473 and 497-498: process_task returns the upload URL or raises;
\* a falsy URL raises ValueError.
ProcessTask ==
    /\ UNCHANGED <<notCons, leaseVars>>
    /\ cpc = "process"
    /\ \/ \E u \in {"u1"} :
             IF u # ""
             THEN /\ cb' = [cb EXCEPT !.url = u]
                  /\ cpc' = "ack"
             ELSE Raise("ValueError", "process")
       \/ \E cls \in ProcessTaskErrors : Raise(cls, "process")
    /\ UNCHANGED <<count, unacknowledged_messages, db, statusLog, taskCalls,
                   taskStatus, ackState, delivered>>

\* Line 476 inside the try block of line 430: an exception of the wait
\* leaves the block for the handlers, skipping lines 477-496.
AckRaisesSwallowed(cls) ==
    /\ cb' = [cb EXCEPT !.exc = cls, !.failedAt = "ack"]
    /\ cpc' = "db_succeeded"

AckRaises(cls) == Raise(cls, "ack")

\* Lines 475-477: ack_with_response and the 20 s wait for its confirmation.
\* The wait raises concurrent.futures.TimeoutError, the class named by
\* `except TimeoutError`, or AcknowledgeError; the broker may or may not have
\* taken the acknowledgment when the wait times out.
AckWithResponse ==
    /\ UNCHANGED <<notCons, leaseVars>>
    /\ cpc = "ack"
    /\ \/ /\ cb' = [cb EXCEPT !.acked = TRUE]
          /\ ackState' = "acked"
          /\ cpc' = "db_succeeded"
       \/ /\ AckRaises("TimeoutError")
          /\ ackState' \in {"leased", "acked"}
       \/ /\ AckRaises("AcknowledgeError")
          /\ UNCHANGED ackState
    /\ UNCHANGED <<count, unacknowledged_messages, db, statusLog, taskCalls,
                   taskStatus, delivered>>

\* Lines 482-487.
DbSucceeded ==
    /\ UNCHANGED <<notCons, leaseVars>>
    /\ cpc = "db_succeeded"
    /\ WriteStatus("succeeded", cb.url, "db_succeeded", "task_succeeded")
    /\ UNCHANGED <<count, unacknowledged_messages, taskCalls, taskStatus, ackState,
                   delivered>>

\* Lines 488-496.
TaskSucceeded ==
    /\ UNCHANGED <<notCons, leaseVars>>
    /\ cpc = "task_succeeded"
    /\ UpdateTask(cb.task_id, "succeeded")
    /\ cpc' = "finally"
    /\ UNCHANGED <<cb, count, unacknowledged_messages, db, statusLog, ackState,
                   delivered>>

\* Lines 503-509 and 520-526: the handler's update of the external task.
HandleTask ==
    /\ UNCHANGED <<notCons, leaseVars>>
    /\ cpc = "except"
    /\ IF cb.task_id # "None"
       THEN UpdateTask(cb.task_id, HandlerStatus(cb.exc))
       ELSE UNCHANGED <<taskCalls, taskStatus>>
    /\ cpc' = "except_db"
    /\ UNCHANGED <<cb, count, unacknowledged_messages, db, statusLog, ackState,
                   delivered>>

\* Lines 511-516 and 528-533 pass no result_url: the default of
\* update_face_swap_status, '', is written, whatever `url` holds.
HandlerResultUrlKept(url) == url

HandlerResultUrl(url) == ""

\* Lines 510 and 527 with the guard removed: the handler never writes.
HandlerWritesRecordNever(rid) == FALSE

\* Lines 510 and 527: `if request_id is not None`.
HandlerWritesRecord(rid) == rid # 0

\* Lines 510-516 and 527-533: the handler's update of the record; an
\* exception raised here leaves callback after the finally block.
HandleDb ==
    /\ UNCHANGED <<notCons, leaseVars>>
    /\ cpc = "except_db"
    /\ IF HandlerWritesRecord(cb.request_id)
       THEN \/ /\ db' = update_face_swap_status(db, cb.request_id,
                                                HandlerStatus(cb.exc),
                                                HandlerResultUrl(cb.url))
               /\ statusLog' = [statusLog EXCEPT ![cb.request_id] =
                                   Append(@, HandlerStatus(cb.exc))]
               /\ UNCHANGED cb
            \/ /\ cb' = [cb EXCEPT !.escaped = TRUE]
               /\ UNCHANGED <<db, statusLog>>
       ELSE UNCHANGED <<cb, db, statusLog>>
    /\ cpc' = "finally"
    /\ UNCHANGED <<count, unacknowledged_messages, taskCalls, taskStatus, ackState,
                   delivered>>

\* Lines 535-544: message.ack() unless acked, then the removal from the map;
\* an exception of message.ack() is logged and skips the removal.
Cleanup ==
    /\ UNCHANGED <<notCons, leaseVars>>
    /\ cpc = "finally"
    /\ \/ /\ ackState' = IF cb.acked THEN ackState ELSE "acked"
          /\ unacknowledged_messages' =
                unacknowledged_messages \ {cb.message.message_id}
       \/ /\ ~cb.acked
          /\ UNCHANGED <<ackState, unacknowledged_messages>>
    /\ cpc' = "done"
    /\ UNCHANGED <<cb, count, db, statusLog, taskCalls, taskStatus, delivered>>

\* callback has returned (or raised); the subscriber thread is free again.
Return ==
    /\ UNCHANGED notCons
    /\ cpc = "done"
    /\ cpc' = "idle"
    /\ deadline' = 0 - 1
    /\ registeredAt' = 0 - 1
    /\ renewed' = FALSE
    /\ cb' = FreshLocals(NoMessage)
    /\ taskCalls' = <<>>
    /\ ackState' = "none"
    /\ UNCHANGED <<count, unacknowledged_messages, db, statusLog, taskStatus,
                   delivered>>

(***************************************************************************)
(* start_consumer, lease_management and the two entry points               *)
(***************************************************************************)
MaxElapsed == 2
MaxRetries == 1

\* A topic of swap jobs whose timeout_at is far away, and of undecodable data.
Jobs ==
    {m \in Messages :
        \/ m.body = "undecodable"
        \/ /\ m.body = "json" /\ m.source_url /\ m.detect_id /\ m.target_url
           /\ m.task_id = "t1"
           /\ m.timeout_at = [kind |-> "time", t |-> MaxTime]}
Entries == {"standalone", "pool"}

\* The entry point has built the consumer and a clear stop_event and is about
\* to run start_consumer (consumer_start.py 6-9, baseconsumer.py 608-612).
Started(entries, msgs, n) ==
    /\ entry \in entries
    /\ topic = msgs
    /\ quota = n
    /\ mainPc = "waiting"
    /\ scPc = "start"
    /\ stop_event = FALSE
    /\ closed = FALSE
    /\ streaming = FALSE
    /\ leasePc = "none"
    /\ wakeAt = 0 - 1
    /\ retries = 0
    /\ clock = 0

\* A consumer of the pool entry point blocked in future.result(), line 578.
Subscribed ==
    /\ entry = "pool"
    /\ topic = Messages
    /\ quota = MaxDeliveries
    /\ mainPc = "waiting"
    /\ scPc = "result"
    /\ stop_event = FALSE
    /\ closed = FALSE
    /\ streaming = TRUE
    /\ leasePc = "created"
    /\ wakeAt = 0 - 1
    /\ retries = 0
    /\ clock = 0

\* start_consumer lines 561-563: the event loop is created and the
\* lease_management coroutine is scheduled on it; nothing runs the loop yet.
CreateLeaseTask ==
    /\ UNCHANGED notRt
    /\ scPc = "start"
    /\ leasePc' = "ready"
    /\ scPc' = "while"
    /\ UNCHANGED <<entry, mainPc, stop_event, closed, streaming, wakeAt, retries, topic, quota, clock>>

\* Line 565: `while not stop_event.is_set()`.
WhileNotStopped ==
    /\ UNCHANGED notRt
    /\ scPc = "while"
    /\ scPc' = IF stop_event THEN "finally" ELSE "try"
    /\ UNCHANGED <<entry, mainPc, stop_event, closed, streaming, leasePc, wakeAt,
                   retries, topic, quota, clock>>

\* Lines 569-571: a closed client is replaced by a new SubscriberClient.
ReconnectNever(c) == c

Reconnect(c) == FALSE

\* Lines 568-575: a new client when the old one is closed, then subscribe(),
\* which starts the streaming pull or raises.
Subscribe ==
    /\ UNCHANGED notRt
    /\ scPc = "try"
    /\ closed' = Reconnect(closed)
    /\ \/ /\ streaming' = TRUE
          /\ scPc' = "result"
       \/ /\ retries < MaxRetries
          /\ scPc' = "except"
          /\ UNCHANGED streaming
    /\ UNCHANGED <<entry, mainPc, stop_event, leasePc, wakeAt, retries, topic, quota, clock>>

\* Line 578: future.result() blocks the thread of start_consumer until the
\* streaming pull ends, by a failure or after the client was closed; it then
\* raises or returns.
FutureResult ==
    /\ UNCHANGED notRt
    /\ scPc = "result"
    /\ closed \/ retries < MaxRetries
    /\ streaming' = FALSE
    /\ scPc' \in {"except", "while"}
    /\ UNCHANGED <<entry, mainPc, stop_event, closed, leasePc, wakeAt, retries, topic, quota, clock>>

\* Lines 579-588: `except Exception`.
OnException ==
    /\ UNCHANGED notRt
    /\ scPc = "except"
    /\ IF ~stop_event
       THEN /\ retries' = retries + 1
            /\ UNCHANGED <<closed, streaming>>
       ELSE /\ closed' = TRUE
            /\ streaming' = FALSE
            /\ UNCHANGED retries
    /\ scPc' = "while"
    /\ UNCHANGED <<entry, mainPc, stop_event, leasePc, wakeAt, topic, quota, clock>>

\* Lines 589-591: run_until_complete(lease_task) runs the event loop, and with
\* it lease_management, until the task has finished; then loop.close().
RunUntilComplete ==
    /\ UNCHANGED notRt
    /\ scPc = "finally"
    /\ leasePc = "finished"
    /\ scPc' = "returned"
    /\ UNCHANGED <<entry, mainPc, stop_event, closed, streaming, leasePc, wakeAt,
                   retries, topic, quota, clock>>

\* The event loop of start_consumer executes its tasks only inside
\* run_until_complete (line 590).
LoopRunning == scPc = "finally"

\* lease_management lines 547-550: the while test, then asyncio.sleep.
LeaseWhile ==
    /\ UNCHANGED notRt
    /\ LoopRunning
    /\ leasePc = "ready"
    /\ IF stop_event
       THEN /\ leasePc' = "finished"
            /\ UNCHANGED wakeAt
       ELSE /\ leasePc' = "sleeping"
            /\ wakeAt' = clock + HalfDeadline
    /\ UNCHANGED <<entry, mainPc, scPc, stop_event, closed, streaming, retries, topic, quota, clock>>

\* lease_management lines 550-558: after the sleep, modify_ack_deadline for
\* every message of the map; an exception is logged.
LeaseRenew ==
    /\ UNCHANGED <<snowVars, tmVars, consVars, fsVars, stVars, rhVars, fmVars, gfVars,
                   upVars,
                   ptVars,
                   lkVars,
                   poolVars>>
    /\ LoopRunning
    /\ leasePc = "sleeping"
    /\ clock >= wakeAt
    /\ IF unacknowledged_messages # {}
       THEN /\ renewed' = TRUE
            /\ \/ deadline' = clock + HalfDeadline
               \/ UNCHANGED deadline
       ELSE UNCHANGED <<deadline, renewed>>
    /\ leasePc' = "ready"
    /\ wakeAt' = 0 - 1
    /\ UNCHANGED <<registeredAt, entry, mainPc, scPc, stop_event, closed, streaming,
                   retries, topic, quota, clock>>

\* KeyboardInterrupt in the main thread. consumer_start.py runs start_consumer
\* on it: the exception passes `except Exception` and enters the finally
\* block, or leaves run_until_complete. baseconsumer.py lines 614-619 wait on
\* the pool and set stop_event.
Interrupt ==
    /\ UNCHANGED notRt
    /\ mainPc = "waiting"
    /\ IF entry = "standalone"
       THEN /\ scPc \in {"try", "result", "except", "finally"}
            /\ IF scPc = "finally"
               THEN scPc' = "raised" /\ mainPc' = "shutdown"
               ELSE scPc' = "finally" /\ UNCHANGED mainPc
            /\ UNCHANGED stop_event
       ELSE /\ stop_event' = TRUE
            /\ mainPc' = "shutdown"
            /\ UNCHANGED scPc
    /\ UNCHANGED <<entry, closed, streaming, leasePc, wakeAt, retries, topic, quota, clock>>

\* consumer.shutdown(), lines 592-594, called by the entry point.
Shutdown ==
    /\ UNCHANGED notRt
    /\ mainPc = "shutdown"
    /\ closed' = TRUE
    /\ streaming' = FALSE
    /\ mainPc' = "exited"
    /\ UNCHANGED <<entry, scPc, stop_event, leasePc, wakeAt, retries, topic, quota, clock>>

\* Time passes.
Tick ==
    /\ UNCHANGED notRt
    /\ clock < MaxElapsed
    /\ clock' = clock + 1
    /\ UNCHANGED <<entry, mainPc, scPc, stop_event, closed, streaming, leasePc, wakeAt,
                   retries, topic, quota>>

\* Time passes without end: once the clock has reached MaxElapsed and no
\* message holds a deadline, the clock and the wake-up time of the lease
\* task are counted from the present again.
Rebase ==
    /\ UNCHANGED notRt
    /\ clock = MaxElapsed
    /\ deadline < 0 /\ registeredAt < 0
    /\ clock' = 0
    /\ wakeAt' = IF wakeAt < 0 THEN wakeAt
                 ELSE IF wakeAt > clock THEN wakeAt - clock ELSE 0
    /\ UNCHANGED <<entry, mainPc, scPc, stop_event, closed, streaming, leasePc,
                   retries, topic, quota>>

(***************************************************************************)
(* facefusion/processors/modules/face_swapper.py                           *)
(* A face is its position on a line of embeddings; the distance of two      *)
(* faces, 1 - dot(normed embeddings), is the distance of their positions.   *)
(***************************************************************************)
MaxFaces == 2
MaxMappings == 2

NoFace == 0 - 1
Positions == {0, 1, 2}
Modes == {"many", "one", "reference"}

\* state item reference_face_distance.
reference_face_distance == 1

\* A mapping as loading resolves it: the source face ("None" when no face
\* could be loaded, else the face of its source_path), the reference face and
\* the optional threshold.
Mappings ==
    [source_face : {"None", "loaded"},
     reference_face : {NoFace, 1},
     similarity_threshold : {"default", "wide"}]

RECURSIVE SeqsUpTo(_, _)
SeqsUpTo(S, n) ==
    IF n = 0 THEN {<<>>}
    ELSE LET shorter == SeqsUpTo(S, n - 1)
         IN  shorter \cup {Append(q, x) : q \in {r \in shorter : Len(r) = n - 1}, x \in S}

\* The configurations of face_mappings and the faces detected in a frame.
MappingLists == SeqsUpTo(Mappings, MaxMappings)
DetectedFaces == SeqsUpTo(Positions, MaxFaces)

\* Line 724: mapping.get('similarity_threshold', reference_face_distance).
Threshold(mapping) ==
    IF mapping.similarity_threshold = "default" THEN reference_face_distance
    ELSE reference_face_distance + 1

\* Line 799: 1 - numpy.dot(target.normed_embedding, reference.normed_embedding).
Distance(a, b) == IF a > b THEN a - b ELSE b - a

\* Line 800 with `<=` in place of `<`.
IsSimilarOrEqual(similarity, threshold) == similarity <= threshold

\* Line 800: is_similar = similarity < threshold.
IsSimilar(similarity, threshold) == similarity < threshold

\* Line 797 with the test removed: no index is ever taken as processed.
ClaimedNever(idx, processed_indices) == FALSE

\* Line 797: `if idx not in processed_indices`, negated.
Claimed(idx, processed_indices) == idx \in processed_indices

\* swap_face, lines 521-528: nothing is swapped without a source face or a
\* target face; otherwise the face at index idx is replaced by source.
swap_face(source, idx, by, vision_frame) ==
    IF source = "None" \/ idx = 0 THEN vision_frame
    ELSE Append(vision_frame, [face |-> idx, source |-> source, mapping |-> by])

\* Lines 796-808: the faces of the frame a mapping swaps, in index order.
RECURSIVE MatchFaces(_, _, _, _, _)
MatchFaces(mapping, k, faces, idx, st) ==
    IF idx > Len(faces) THEN st
    ELSE LET hit == /\ ~Claimed(idx, st.processed_indices)
                    /\ IsSimilar(Distance(faces[idx], mapping.reference_face),
                                 Threshold(mapping))
         IN  MatchFaces(mapping, k, faces, idx + 1,
                 IF hit
                 THEN [vision_frame |-> swap_face(mapping.source_face, idx, k,
                                                  st.vision_frame),
                       processed_indices |-> st.processed_indices \cup {idx}]
                 ELSE st)

\* Lines 720-814: the loop over the mappings; a mapping whose source face or
\* reference face is missing is skipped with a warning.
RECURSIVE ApplyMappings(_, _, _, _)
ApplyMappings(mappings, k, faces, st) ==
    IF k > Len(mappings) THEN st
    ELSE ApplyMappings(mappings, k + 1, faces,
             IF mappings[k].source_face # "None" /\ mappings[k].reference_face # NoFace
             THEN MatchFaces(mappings[k], k, faces, 1, st)
             ELSE st)

\* Lines 699-701: swap_face for every detected face.
RECURSIVE SwapEach(_, _, _)
SwapEach(source, indices, vision_frame) ==
    IF indices = <<>> THEN vision_frame
    ELSE SwapEach(source, Tail(indices), swap_face(source, Head(indices), 0, vision_frame))

Indices(faces) == [i \in 1 .. Len(faces) |-> i]

\* find_similar_faces of the vendored face_selector: the detected faces
\* within face_distance of a stored reference face.
find_similar_faces(faces, reference_faces, face_distance) ==
    SelectSeq(Indices(faces),
              LAMBDA i : \E r \in reference_faces :
                             Distance(faces[i], r) < face_distance)

\* get_one_face of the vendored face_analyser: the first face, or None (0).
get_one_face(faces) == IF faces = <<>> THEN 0 ELSE 1

\* Line 712: `if face_mappings and len(face_mappings) > 0`.
HasMappings(mappings) == mappings # <<>>

\* process_frame, lines 686-823: the swaps applied to the frame.
process_frame(inputs, mode, faces) ==
    IF mode = "many" THEN SwapEach(inputs.source_face, Indices(faces), <<>>)
    ELSE IF mode = "one"
    THEN swap_face(inputs.source_face, get_one_face(faces), 0, <<>>)
    ELSE IF HasMappings(inputs.face_mappings)
    THEN ApplyMappings(inputs.face_mappings, 1, faces,
                       [vision_frame |-> <<>>, processed_indices |-> {}]).vision_frame
    ELSE SwapEach(inputs.source_face,
                  find_similar_faces(faces, inputs.reference_faces,
                                     reference_face_distance),
                  <<>>)

\* process_frames lines 834-904 and process_image lines 929-999: the stored
\* reference faces in reference mode; with configured mappings their preload
\* and `source_face = None`, otherwise the average face of source_paths.
Preload ==
    [reference_faces |-> IF face_selector_mode = "reference" THEN reference_store
                         ELSE {},
     face_mappings |-> IF HasMappings(face_mappings) THEN face_mappings ELSE <<>>,
     source_face |-> IF HasMappings(face_mappings) THEN "None" ELSE source_faces]

NoLocals == [reference_faces |-> {}, face_mappings |-> <<>>, source_face |-> "None"]

\* A job: the state items and the faces of the source images.
FsInit ==
    /\ face_selector_mode \in Modes
    /\ face_mappings \in MappingLists
    /\ source_faces = "average"
    /\ reference_store \in {{}, {0}}
    /\ fsPc = "ready"
    /\ fs = NoLocals
    /\ many_faces = <<>>
    /\ frame = <<>>

FsIdle ==
    /\ face_selector_mode = "many"
    /\ face_mappings = <<>>
    /\ source_faces = "None"
    /\ reference_store = {}
    /\ fsPc = "ready"
    /\ fs = NoLocals
    /\ many_faces = <<>>
    /\ frame = <<>>

\* process_frames up to its loop, lines 833-904.
ProcessFrames ==
    /\ UNCHANGED notFs
    /\ fsPc = "ready"
    /\ fs' = Preload
    /\ fsPc' = "frames"
    /\ UNCHANGED <<face_selector_mode, face_mappings, source_faces, reference_store,
                   many_faces, frame>>

\* One iteration of the loop of process_frames, lines 906-923: a frame is
\* read, its faces are detected (line 693), process_frame is applied and the
\* result is written.
ProcessFrame ==
    /\ UNCHANGED notFs
    /\ fsPc = "frames"
    /\ \E faces \in DetectedFaces :
          /\ many_faces' = faces
          /\ frame' = process_frame(fs, face_selector_mode, faces)
    /\ fsPc' = "written"
    /\ UNCHANGED <<face_selector_mode, face_mappings, source_faces, reference_store, fs>>

\* Lines 906 and 925: update_progress, then the next payload of the queue.
NextPayload ==
    /\ UNCHANGED notFs
    /\ fsPc = "written"
    /\ many_faces' = <<>>
    /\ frame' = <<>>
    /\ fsPc' = "frames"
    /\ UNCHANGED <<face_selector_mode, face_mappings, source_faces, reference_store, fs>>

\* process_image, lines 928-1010: the preload and the one target image.
ProcessImage ==
    /\ UNCHANGED notFs
    /\ fsPc = "ready"
    /\ fs' = Preload
    /\ \E faces \in DetectedFaces :
          /\ many_faces' = faces
          /\ frame' = process_frame(Preload, face_selector_mode, faces)
    /\ fsPc' = "done"
    /\ UNCHANGED <<face_selector_mode, face_mappings, source_faces, reference_store>>

(***************************************************************************)
(* storage/manager.py : StorageManager                                     *)
(***************************************************************************)
\* config.py line 21: the values of STORAGE_PROVIDER.
Selectors == {"local", "gcs", "r2", "cf_images"}

\* The providers initialize() has a _configure_ method for (lines 106-108).
Configurable == {"gcs", "r2", "cf_images"}

\* StorageManager.__init__ (lines 27-31) under a configuration.
StInit ==
    /\ storage_provider \in Selectors
    /\ config_complete \in BOOLEAN
    /\ constructs \in BOOLEAN
    /\ providers = {}
    /\ default_provider = "None"
    /\ initialized = FALSE
    /\ stOp = "none"
    /\ stResult = "none"
    /\ called = "None"

StIdle ==
    /\ storage_provider = "local"
    /\ config_complete = TRUE
    /\ constructs = TRUE
    /\ providers = {}
    /\ default_provider = "None"
    /\ initialized = FALSE
    /\ stOp = "none"
    /\ stResult = "none"
    /\ called = "None"

\* Lines 86-88 with the test removed: initialize never returns early.
AlreadyInitializedNever == FALSE

\* Lines 86-88: `if self._initialized`.
AlreadyInitialized == initialized

\* _configure_gcs, _configure_r2, _configure_cf_images (lines 120-171): the
\* names registered by the three calls of lines 106-108. A provider is
\* registered when it is the selected one, its settings are non-empty and
\* its constructor (and import) succeed; every exception is swallowed.
Configured ==
    {n \in Configurable : storage_provider = n /\ config_complete /\ constructs}

\* initialize, lines 84-118.
Initialize ==
    /\ UNCHANGED notSt
    /\ IF AlreadyInitialized
       THEN UNCHANGED <<providers, default_provider, initialized>>
       ELSE /\ providers' = Configured
            /\ default_provider' = IF Configured = {} THEN "None" ELSE storage_provider
            /\ initialized' = TRUE
    /\ stOp' = "initialize"
    /\ stResult' = "none"
    /\ called' = "None"
    /\ UNCHANGED <<storage_provider, config_complete, constructs>>

\* Line 36 without `or self.default_provider is None`.
BecomesDefaultOnRequest(is_default) == is_default

\* Line 36: `if is_default or self.default_provider is None`.
BecomesDefault(is_default) == is_default \/ default_provider = "None"

\* register_provider, lines 33-38.
register_provider(name, is_default) ==
    /\ UNCHANGED notSt
    /\ providers' = providers \cup {name}
    /\ default_provider' =
          IF BecomesDefault(is_default) THEN name ELSE default_provider
    /\ stOp' = "register_provider"
    /\ stResult' = "none"
    /\ called' = "None"
    /\ UNCHANGED <<storage_provider, config_complete, constructs, initialized>>

RegisterProvider == \E name \in Selectors, is_default \in BOOLEAN :
                        register_provider(name, is_default)

\* Line 175 without `and bool(self.providers)`.
is_initialized_flag_only == initialized

\* is_initialized, lines 173-175.
is_initialized == initialized /\ providers # {}

\* upload_binary, lines 52-68, with get_provider (lines 40-45): RuntimeError
\* before initialization, ValueError for an unknown name, else the provider's
\* upload_binary, whose exception is logged and raised again.
upload_binary(provider) ==
    /\ UNCHANGED notSt
    /\ stOp' = "upload_binary"
    /\ IF ~is_initialized
       THEN stResult' = "RuntimeError" /\ called' = "None"
       ELSE LET provider_name == IF provider # "None" THEN provider ELSE default_provider
            IN  IF provider_name \notin providers
                THEN stResult' = "ValueError" /\ called' = "None"
                ELSE /\ called' = provider_name
                     /\ stResult' \in {"url", "ProviderError"}
    /\ UNCHANGED <<storage_provider, config_complete, constructs, providers,
                   default_provider, initialized>>

UploadBinary == \E provider \in Selectors \cup {"None"} : upload_binary(provider)

\* get_provider, lines 40-45, called with a name or without one: the
\* provider of that name or of the default name, or ValueError.
get_provider(name) ==
    /\ UNCHANGED notSt
    /\ stOp' = IF name = "None" THEN "get_provider()" ELSE "get_provider(name)"
    /\ LET provider_name == IF name # "None" THEN name ELSE default_provider
       IN  IF provider_name \notin providers
           THEN stResult' = "ValueError" /\ called' = "None"
           ELSE stResult' = "provider" /\ called' = provider_name
    /\ UNCHANGED <<storage_provider, config_complete, constructs, providers,
                   default_provider, initialized>>

GetProvider == \E name \in Selectors \cup {"None"} : get_provider(name)

(***************************************************************************)
(* runpod_handler.py : handler, FaceFusionHandler, ProcessingResult        *)
(***************************************************************************)
MaxJobs == 2

MaxResolutionLen == 2

\* A URL field of job['input']: the key is absent, or it holds '' or a URL.
Urls == {"absent", "", "url"}

\* The resolution field: absent, null, or a string, given as its characters.
Resolutions ==
    [kind : {"absent", "None"}, text : {<< >>}]
    \cup [kind : {"str"},
          text : UNION {[1..n -> {"1", "x"}] : n \in 0..MaxResolutionLen}]

\* The jobs handler receives: the id given or not; `input` a dict with each
\* field given or not, or `input` absent, or `input` null.
RunpodJobs ==
    [id : {"absent", "j1"}, input : {"dict"}, source_url : Urls, target_url : Urls,
     resolution : Resolutions]
    \cup [id : {"absent", "j1"}, input : {"absent", "None"}, source_url : {"absent"},
          target_url : {"absent"}, resolution : {[kind |-> "absent", text |-> << >>]}]

NoJob == [id |-> "absent", input |-> "absent", source_url |-> "absent",
          target_url |-> "absent", resolution |-> [kind |-> "absent", text |-> << >>]]

\* ProcessingResult, lines 171-180; "None" is the default of a field.
ProcessingResult(status, output_path, processing_time, error, tb, metadata) ==
    [status |-> status, output_path |-> output_path,
     processing_time |-> processing_time, error |-> error, traceback |-> tb,
     metadata |-> metadata]

NoResult == ProcessingResult("None", "None", "None", "None", "None", "None")

\* Lines 191-192: `if self.traceback`.
HasTraceback(r) == r.traceback # "None"

\* ProcessingResult.to_dict, lines 182-196: status and every field that is set.
to_dict(r) ==
    LET keys == {"status"}
                \cup (IF r.output_path # "None" THEN {"output_path"} ELSE {})
                \cup (IF r.processing_time # "None" THEN {"processing_time"} ELSE {})
                \cup (IF r.error # "None" THEN {"error"} ELSE {})
                \cup (IF HasTraceback(r) THEN {"traceback"} ELSE {})
                \cup (IF r.metadata # "None" THEN {"metadata"} ELSE {})
    IN  [k \in keys |-> r[k]]

\* `d[key] = value` on a dict.
SetItem(d, key, value) ==
    [k \in DOMAIN d \cup {key} |-> IF k = key THEN value ELSE d[k]]

\* job.get('id', ...), line 592.
JobId(j) == IF j.id = "absent" THEN "unknown" ELSE j.id

\* str.count(c).
Count(text, c) == Cardinality({i \in DOMAIN text : text[i] = c})

\* job_input.get('resolution', '1024x1024'), line 601, for a string or no key.
Resolution(j) ==
    IF j.resolution.kind = "absent"
    THEN <<"1", "0", "2", "4", "x", "1", "0", "2", "4">>
    ELSE j.resolution.text

\* `not source_url`, line 605: None and '' are false.
Falsy(url) == url \in {"absent", ""}

\* resolution.count('x') == 1, line 609.
OneXOrMore(resolution) == Count(resolution, "x") >= 1

OneX(resolution) == Count(resolution, "x") = 1

\* Lines 598-610: what the input checks raise ("none": the job passes).
\* `.get` on a null input and `.count` on a null resolution raise
\* AttributeError.
ValidationError(j) ==
    IF j.input = "None" THEN "AttributeError"
    ELSE IF Falsy(j.source_url) \/ Falsy(j.target_url) THEN "ValueError"
    ELSE IF j.resolution.kind = "None" THEN "AttributeError"
    ELSE IF ~OneX(Resolution(j)) THEN "ValueError"
    ELSE "none"

\* `except Exception`, line 627: the classes it catches.
IsException(cls) == cls \in {"ValueError", "AttributeError", "Exception"}

\* The module-level handler_instance, line 564, and no job.
RhIdle ==
    /\ rhPc = "idle"
    /\ job = NoJob
    /\ rhInitialized = FALSE
    /\ stats = [total |-> 0, succeeded |-> 0, failed |-> 0]
    /\ result = NoResult
    /\ rhExc = "none"
    /\ response = << >>
    /\ started = {}

\* The serverless runtime calls handler(job), lines 567-592.
Receive ==
    /\ UNCHANGED notRh
    /\ rhPc = "idle"
    /\ stats.total < MaxJobs
    /\ job' \in RunpodJobs
    /\ rhPc' = "validate"
    /\ result' = NoResult
    /\ rhExc' = "none"
    /\ response' = << >>
    /\ started' = {}
    /\ UNCHANGED <<rhInitialized, stats>>

\* Lines 597-610: the input checks of handler.
ValidateInput ==
    /\ UNCHANGED notRh
    /\ rhPc = "validate"
    /\ rhExc' = ValidationError(job)
    /\ rhPc' = IF rhExc' = "none" THEN "request" ELSE "except"
    /\ UNCHANGED <<job, rhInitialized, stats, result, response, started>>

\* process_request lines 461-466: the request is counted, and initialize()
\* runs when needed; its exception is raised again and leaves process_request.
EnsureInitialized ==
    /\ UNCHANGED notRh
    /\ rhPc = "request"
    /\ stats' = [stats EXCEPT !.total = @ + 1]
    /\ IF rhInitialized
       THEN rhPc' = "download" /\ UNCHANGED <<rhInitialized, rhExc>>
       ELSE \/ rhInitialized' = TRUE /\ rhPc' = "download" /\ UNCHANGED rhExc
            \/ rhExc' = "Exception" /\ rhPc' = "except" /\ UNCHANGED rhInitialized
    /\ UNCHANGED <<job, result, response, started>>

\* process_request lines 468-506: the work directory and the two downloads.
\* A failed download returns a result with an error text; any other
\* exception is caught at lines 534-541.
Download ==
    /\ UNCHANGED notRh
    /\ rhPc = "download"
    /\ \/ rhPc' = "swap" /\ UNCHANGED <<result, stats>>
                        /\ started' = started \cup {"download"}
       \/ /\ \E which \in {"source download failed", "target download failed"} :
                result' = ProcessingResult("failed", "None", "None", which, "None", "None")
          /\ rhPc' = "respond"
          /\ started' = started \cup {"download"}
          /\ UNCHANGED stats
       \/ /\ result' = ProcessingResult("failed", "None", "None", "error text",
                                         "stack trace", "None")
          /\ stats' = [stats EXCEPT !.failed = @ + 1]
          /\ rhPc' = "respond"
          /\ \E began \in SUBSET {"download"} : started' = started \cup began
    /\ UNCHANGED <<job, rhInitialized, rhExc, response>>

\* process_face_swap, lines 306-396.
process_face_swap ==
    {ProcessingResult("failed", "None", "None", "file missing or empty", "None", "None"),
     ProcessingResult("succeeded", "url", "seconds", "None", "None", "metadata"),
     ProcessingResult("failed", "None", "seconds", "no output", "None", "None"),
     ProcessingResult("failed", "None", "seconds", "error text", "stack trace", "None")}

\* process_request lines 508-532: process_face_swap and the statistics.
FaceSwap ==
    /\ UNCHANGED notRh
    /\ rhPc = "swap"
    /\ result' \in process_face_swap
    /\ stats' = IF result'.status = "succeeded"
                THEN [stats EXCEPT !.succeeded = @ + 1]
                ELSE [stats EXCEPT !.failed = @ + 1]
    /\ rhPc' = "respond"
    /\ started' = started \cup {"swap"}
    /\ UNCHANGED <<job, rhInitialized, rhExc, response>>

\* handler lines 620-625: the response built from the result.
Respond ==
    /\ UNCHANGED notRh
    /\ rhPc = "respond"
    /\ response' = SetItem(to_dict(result), "job_id", JobId(job))
    /\ rhPc' = "done"
    /\ UNCHANGED <<job, rhInitialized, stats, result, rhExc, started>>

\* handler lines 627-634: `except Exception`; any other exception would
\* leave handler.
HandlerExcept ==
    /\ UNCHANGED notRh
    /\ rhPc = "except"
    /\ IF IsException(rhExc)
       THEN /\ response' = [k \in {"status", "error", "traceback", "job_id"} |->
                               IF k = "status" THEN "failed"
                               ELSE IF k = "error" THEN "error text"
                               ELSE IF k = "traceback" THEN "stack trace"
                               ELSE JobId(job)]
            /\ rhPc' = "done"
       ELSE /\ response' = response
            /\ rhPc' = "raised"
    /\ UNCHANGED <<job, rhInitialized, stats, result, rhExc, started>>

\* handler has returned `response` to the caller.
Returned ==
    /\ UNCHANGED notRh
    /\ rhPc = "done"
    /\ rhPc' = "idle"
    /\ UNCHANGED <<job, rhInitialized, stats, result, rhExc, response, started>>

(***************************************************************************)
(* fusion_manager.py : FaceFusionManager.process_face_swap                 *)
(***************************************************************************)
MaxRequests == 2

\* What a URL of the request delivers into temp_dir: an image, a video, a
\* file that is neither, or no file at all.
Kinds == {"image", "video", "other", "nofile"}

Requests == [source_url : Kinds, target_url : Kinds]

NoRequest == [source_url |-> "nofile", target_url |-> "nofile"]

NoCode == 0 - 1

\* ProcessResponse, lines 47-56, as far as the caller tells them apart.
ProcessResponse(status, output_path, error) ==
    [status |-> status, output_path |-> output_path, error |-> error]

NoResponse == ProcessResponse("None", "None", "None")

FmIdle ==
    /\ fmPc = "idle"
    /\ request = NoRequest
    /\ temp_dir = "none"
    /\ files = {}
    /\ error_code = NoCode
    /\ fmExc = "none"
    /\ fmResponse = NoResponse
    /\ warned = FALSE
    /\ fmCalls = 0

\* An exception raised inside the try block, line 229, reaches line 298.
FmRaise(cls) == fmExc' = cls /\ fmPc' = "except"

\* Lines 223-227: the call starts; mkdtemp creates the directory, or raises
\* before the try block is entered.
FmCall ==
    /\ UNCHANGED notFm
    /\ fmPc = "idle"
    /\ fmCalls < MaxRequests
    /\ fmCalls' = fmCalls + 1
    /\ request' \in Requests
    /\ files' = {}
    /\ error_code' = NoCode
    /\ fmExc' = "none"
    /\ fmResponse' = NoResponse
    /\ warned' = FALSE
    /\ \/ temp_dir' = "exists" /\ fmPc' = "source"
       \/ temp_dir' = "none" /\ fmPc' = "raised"

\* Lines 232-241: the source download; it raises, or leaves no file
\* (FileNotFoundError), or leaves the source file.
DownloadSource ==
    /\ UNCHANGED notFm
    /\ fmPc = "source"
    /\ \/ FmRaise("Exception") /\ UNCHANGED files
       \/ /\ request.source_url = "nofile"
          /\ FmRaise("FileNotFoundError") /\ UNCHANGED files
       \/ /\ request.source_url # "nofile"
          /\ files' = {"source"} /\ fmPc' = "target" /\ UNCHANGED fmExc
    /\ UNCHANGED <<request, temp_dir, error_code, fmResponse, warned, fmCalls>>

\* Lines 243-250: the target download, the same way.
DownloadTarget ==
    /\ UNCHANGED notFm
    /\ fmPc = "target"
    /\ \/ FmRaise("Exception") /\ UNCHANGED files
       \/ /\ request.target_url = "nofile"
          /\ FmRaise("FileNotFoundError") /\ UNCHANGED files
       \/ /\ request.target_url # "nofile"
          /\ files' = files \cup {"target"} /\ fmPc' = "verify" /\ UNCHANGED fmExc
    /\ UNCHANGED <<request, temp_dir, error_code, fmResponse, warned, fmCalls>>

\* Lines 252-256: is_image(source), is_image(target) or is_video(target).
ValidFiles(req) ==
    req.source_url = "image" /\ req.target_url \in {"image", "video"}

VerifyFiles ==
    /\ UNCHANGED notFm
    /\ fmPc = "verify"
    /\ IF ValidFiles(request)
       THEN fmPc' = "process" /\ UNCHANGED fmExc
       ELSE FmRaise("ValueError")
    /\ UNCHANGED <<request, temp_dir, files, error_code, fmResponse, warned, fmCalls>>

\* Lines 263-271: the pipeline returns an error code, and has written the
\* output file or not, or it raises.
HeadlessProcess ==
    /\ UNCHANGED notFm
    /\ fmPc = "process"
    /\ \/ FmRaise("Exception") /\ UNCHANGED <<files, error_code>>
       \/ /\ error_code' \in {0, 1}
          /\ \E written \in SUBSET {"output"} : files' = files \cup written
          /\ fmPc' = "result" /\ UNCHANGED fmExc
    /\ UNCHANGED <<request, temp_dir, fmResponse, warned, fmCalls>>

\* Lines 273-296: the output is copied and a success response returned (the
\* copy may raise), or Exception is raised for the failed run.
CopyOutput ==
    /\ UNCHANGED notFm
    /\ fmPc = "result"
    /\ IF error_code = 0 /\ "output" \in files
       THEN \/ /\ fmResponse' = ProcessResponse("success", "/outputs/file", "None")
               /\ fmPc' = "finally" /\ UNCHANGED fmExc
            \/ FmRaise("OSError") /\ UNCHANGED fmResponse
       ELSE FmRaise("Exception") /\ UNCHANGED fmResponse
    /\ UNCHANGED <<request, temp_dir, files, error_code, warned, fmCalls>>

\* Lines 298-309: `except Exception` returns a failed response.
FmExcept ==
    /\ UNCHANGED notFm
    /\ fmPc = "except"
    /\ fmResponse' = ProcessResponse("failed", "None", "error text")
    /\ fmPc' = "finally"
    /\ UNCHANGED <<request, temp_dir, files, error_code, fmExc, warned, fmCalls>>

\* shutil.rmtree(path): the directory is gone when it succeeds.
rmtree_keeps(dir) == dir

rmtree(dir) == "removed"

\* Lines 310-316: the finally block; an exception of shutil.rmtree is
\* logged as a warning and the directory stays.
FmFinally ==
    /\ UNCHANGED notFm
    /\ fmPc = "finally"
    /\ IF temp_dir = "exists"
       THEN \/ temp_dir' = rmtree(temp_dir) /\ files' = {} /\ UNCHANGED warned
            \/ warned' = TRUE /\ UNCHANGED <<temp_dir, files>>
       ELSE UNCHANGED <<temp_dir, files, warned>>
    /\ fmPc' = "returned"
    /\ UNCHANGED <<request, error_code, fmExc, fmResponse, fmCalls>>

\* The caller has the response, or the exception of mkdtemp.
FmReturned ==
    /\ UNCHANGED notFm
    /\ fmPc \in {"returned", "raised"}
    /\ fmPc' = "idle"
    /\ UNCHANGED <<request, temp_dir, files, error_code, fmExc, fmResponse, warned,
                   fmCalls>>

(***************************************************************************)
(* utils/ffmpeg.py : get_file_info                                         *)
(***************************************************************************)
\* config/conf.py lines 54-57: the size limits, in pixels.
env_max_video_size == 1280
env_min_video_size == 300
env_max_image_size == 4000
env_min_image_size == 300

\* Widths and heights of the files, in pixels; 0 is what
\* video_stream.get('width', 0) gives for a stream without the field.
Dimensions == {0, 200, 300, 900, 1280, 1400, 2100, 4000, 4200}

\* The files: missing; an image (with or without an alpha channel); a file
\* ffprobe finds no streams in, or only an audio stream; a video, too long
\* or too big or neither.
Media ==
    [kind : {"missing", "nostreams", "audio"}, width : {0}, height : {0},
     flag : {"none"}]
    \cup [kind : {"image"}, width : Dimensions \ {0}, height : Dimensions \ {0},
          flag : {"none", "alpha"}]
    \cup [kind : {"video"}, width : Dimensions, height : Dimensions,
          flag : {"none", "too long", "too big"}]

NoMedia == [kind |-> "missing", width |-> 0, height |-> 0, flag |-> "none"]

Size(width, height) == [width |-> width, height |-> height]

GfIdle ==
    /\ gfPc = "idle"
    /\ media = NoMedia
    /\ img = Size(0, 0)
    /\ gfOps = << >>
    /\ gfOutcome = "none"

\* `raise`: line 215 logs the exception and raises it again.
GfRaise(cls) == gfOutcome' = cls /\ gfPc' = "done"

\* Lines 141 and 192, `aspect_ratio > 21/9 or aspect_ratio < 9/21` with
\* aspect_ratio = width / height and height > 0, on the integers.
RatioNeverRejected(width, height) == FALSE

RatioRejected(width, height) == 9 * width > 21 * height \/ 21 * width < 9 * height

\* img.thumbnail((size, size)): the image shrinks to fit, keeping its ratio.
Thumbnail(w, h, size) ==
    LET AtLeastOne(n) == IF n < 1 THEN 1 ELSE n
    IN  IF w >= h THEN Size(size, AtLeastOne((h * size) \div w))
        ELSE Size(AtLeastOne((w * size) \div h), size)

\* Lines 132-139 and 170: the call starts; a missing file raises, an image
\* is opened, any other file is probed.
GfCall ==
    /\ UNCHANGED notGf
    /\ gfPc = "idle"
    /\ media' \in Media
    /\ gfOps' = << >>
    /\ img' = Size(media'.width, media'.height)
    /\ IF media'.kind = "missing" THEN GfRaise("ValueError")
       ELSE /\ gfOutcome' = "none"
            /\ gfPc' = IF media'.kind = "image" THEN "image ratio" ELSE "probe"

\* Lines 140-142: the aspect-ratio check of an image.
ImageRatio ==
    /\ UNCHANGED notGf
    /\ gfPc = "image ratio"
    /\ IF RatioRejected(img.width, img.height)
       THEN GfRaise("ValueError")
       ELSE gfPc' = "image scale" /\ UNCHANGED gfOutcome
    /\ UNCHANGED <<media, img, gfOps>>

\* Lines 145-148: an image larger than the limit is shrunk and saved.
ImageScale ==
    /\ UNCHANGED notGf
    /\ gfPc = "image scale"
    /\ IF img.width > env_max_image_size \/ img.height > env_max_image_size
       THEN /\ img' = Thumbnail(img.width, img.height, env_max_image_size)
            /\ \/ gfOps' = gfOps \o <<"thumbnail", "save">>
                  /\ gfPc' = "image min" /\ UNCHANGED gfOutcome
               \/ gfOps' = gfOps \o <<"thumbnail">> /\ GfRaise("OSError")
       ELSE gfPc' = "image min" /\ UNCHANGED <<img, gfOps, gfOutcome>>
    /\ UNCHANGED media

\* Lines 149-150: the minimum size of an image.
ImageMin ==
    /\ UNCHANGED notGf
    /\ gfPc = "image min"
    /\ IF img.width < env_min_image_size \/ img.height < env_min_image_size
       THEN GfRaise("ValueError")
       ELSE gfPc' = "image mode" /\ UNCHANGED gfOutcome
    /\ UNCHANGED <<media, img, gfOps>>

\* Lines 152-168: an image with transparency is saved again as JPEG; the
\* image is described and returned.
ImageReturn ==
    /\ UNCHANGED notGf
    /\ gfPc = "image mode"
    /\ gfOps' = IF media.flag = "alpha" THEN gfOps \o <<"save jpeg">> ELSE gfOps
    /\ gfOutcome' = "Image"
    /\ gfPc' = "done"
    /\ UNCHANGED <<media, img>>

\* Lines 170-185 and 211-214: ffprobe's answer; no stream, no video stream,
\* a duration or a size over the limit raise.
VideoProbe ==
    /\ UNCHANGED notGf
    /\ gfPc = "probe"
    /\ IF media.kind # "video" \/ media.flag # "none"
       THEN GfRaise("ValueError")
       ELSE gfPc' = "video ratio" /\ UNCHANGED gfOutcome
    /\ UNCHANGED <<media, img, gfOps>>

\* Lines 188-193: the aspect-ratio check of a video; a height of 0 raises
\* ZeroDivisionError at line 190.
VideoRatio ==
    /\ UNCHANGED notGf
    /\ gfPc = "video ratio"
    /\ IF img.height = 0 THEN GfRaise("ZeroDivisionError")
       ELSE IF RatioRejected(img.width, img.height) THEN GfRaise("ValueError")
       ELSE gfPc' = "video scale" /\ UNCHANGED gfOutcome
    /\ UNCHANGED <<media, img, gfOps>>

\* Lines 195-201: a video larger than the limit is re-encoded by
\* scale_video, which raises when ffmpeg fails.
VideoScale ==
    /\ UNCHANGED notGf
    /\ gfPc = "video scale"
    /\ IF img.width > env_max_video_size \/ img.height > env_max_video_size
       THEN \/ gfOps' = gfOps \o <<"scale_video">>
               /\ gfPc' = "video min" /\ UNCHANGED gfOutcome
            \/ gfOps' = gfOps \o <<"scale_video failed">>
               /\ GfRaise("CalledProcessError")
       ELSE gfPc' = "video min" /\ UNCHANGED <<gfOps, gfOutcome>>
    /\ UNCHANGED <<media, img>>

\* Lines 203-210: the minimum size of a video, on the size before scaling,
\* and the return.
VideoReturn ==
    /\ UNCHANGED notGf
    /\ gfPc = "video min"
    /\ IF img.width < env_min_video_size \/ img.height < env_min_video_size
       THEN GfRaise("ValueError")
       ELSE gfOutcome' = "Video" /\ gfPc' = "done"
    /\ UNCHANGED <<media, img, gfOps>>

\* The caller has the result or the exception.
GfReturned ==
    /\ UNCHANGED notGf
    /\ gfPc = "done"
    /\ gfPc' = "idle"
    /\ UNCHANGED <<media, img, gfOps, gfOutcome>>

(***************************************************************************)
(* main2.py : ModelSwapper.process; pubsub/baseconsumer.py : the entry     *)
(* point with three consumers on the threads of one executor               *)
(***************************************************************************)
\* baseconsumer.py line 608: consumer-0, consumer-1 and consumer-2.
NumConsumers == 3

PoolConsumers == 1 .. NumConsumers

\* The attributes of facefusion.globals that process assigns (lines 110-114).
JobParameters ==
    {"source_paths", "target_path", "output_path", "output_image_resolution",
     "output_video_resolution"}

PoolIdle ==
    /\ globals = [p \in JobParameters |-> 0]
    /\ poolPc = [c \in PoolConsumers |-> "idle"]

\* baseconsumer.py lines 388-393: process_task of consumer c calls
\* self.swapper.process with the paths of its own task.
PoolProcess(c) ==
    /\ UNCHANGED notPool
    /\ poolPc[c] = "idle"
    /\ poolPc' = [poolPc EXCEPT ![c] = "source_paths"]
    /\ UNCHANGED globals

\* main2.py lines 110-114: one assignment to an attribute of the module
\* facefusion.globals, which all the consumers of the process share.
SetGlobal(c, parameter, next) ==
    /\ UNCHANGED notPool
    /\ poolPc[c] = parameter
    /\ globals' = [globals EXCEPT ![parameter] = c]
    /\ poolPc' = [poolPc EXCEPT ![c] = next]

SetSourcePaths(c) == SetGlobal(c, "source_paths", "target_path")

SetTargetPath(c) == SetGlobal(c, "target_path", "output_path")

SetOutputPath(c) == SetGlobal(c, "output_path", "output_image_resolution")

SetImageResolution(c) ==
    SetGlobal(c, "output_image_resolution", "output_video_resolution")

SetVideoResolution(c) ==
    SetGlobal(c, "output_video_resolution", "conditional_process")

\* main2.py line 119, conditional_process(): the pipeline run starts and
\* reads its inputs (source paths, target path) from facefusion.globals.
ConditionalProcess(c) ==
    /\ UNCHANGED notPool
    /\ poolPc[c] = "conditional_process"
    /\ poolPc' = [poolPc EXCEPT ![c] = "running"]
    /\ UNCHANGED globals

\* The pipeline run writes its result: it reads the output path and the
\* resolution from facefusion.globals, and conditional_process returns.
PipelineOutput(c) ==
    /\ UNCHANGED notPool
    /\ poolPc[c] = "running"
    /\ poolPc' = [poolPc EXCEPT ![c] = "returned"]
    /\ UNCHANGED globals

\* main2.py lines 118-122 and baseconsumer.py line 394: process returns to
\* process_task.
PoolReturn(c) ==
    /\ UNCHANGED notPool
    /\ poolPc[c] = "returned"
    /\ poolPc' = [poolPc EXCEPT ![c] = "idle"]
    /\ UNCHANGED globals

(***************************************************************************)
(* bucket.py : GCSUtils.upload_file; storage/providers/gcs.py and          *)
(* cloudflare_r2.py : upload_file                                          *)
(***************************************************************************)
\* The three implementations of upload_file.
Uploaders == {"GCSUtils", "GCSProvider", "CloudflareR2Provider"}

\* The local files a caller may name.
LocalFiles == {"a.jpg", "b.mp4"}

UpIdle ==
    /\ upPc = "idle"
    /\ uploader = "GCSUtils"
    /\ source_file_name = "a.jpg"
    /\ local_files = LocalFiles
    /\ bucket_objects = {}
    /\ existed = TRUE
    /\ upOutcome = "none"

\* os.remove(path) when it succeeds.
remove_nothing(fs_, path) == fs_

remove(fs_, path) == fs_ \ {path}

\* A caller invokes upload_file (bucket.py 18, gcs.py 41, cloudflare_r2.py 30)
\* for a file that exists or was removed before.
UploadFile ==
    /\ UNCHANGED notUp
    /\ upPc = "idle"
    /\ uploader' \in Uploaders
    /\ source_file_name' \in LocalFiles
    /\ existed' = (source_file_name' \in local_files)
    /\ upOutcome' = "none"
    /\ upPc' = "upload"
    /\ UNCHANGED <<local_files, bucket_objects>>

\* blob.upload_from_filename / s3_client.upload_file (bucket.py 21-23,
\* gcs.py 44-46, cloudflare_r2.py 33-34): the content is stored, or the call
\* raises; it raises when the file is missing.
Transfer ==
    /\ UNCHANGED notUp
    /\ upPc = "upload"
    /\ \/ /\ source_file_name \in local_files
          /\ bucket_objects' = bucket_objects \cup {source_file_name}
          /\ upPc' = "remove"
       \/ /\ upPc' = "except"
          /\ UNCHANGED bucket_objects
    /\ UNCHANGED <<uploader, source_file_name, local_files, existed, upOutcome>>

\* os.remove(source_file_name) (bucket.py 26, gcs.py 48, cloudflare_r2.py 36)
\* removes the file or raises; then the URL is returned (bucket.py 29-30,
\* gcs.py 51, cloudflare_r2.py 39).
RemoveSource ==
    /\ UNCHANGED notUp
    /\ upPc = "remove"
    /\ \/ /\ local_files' = remove(local_files, source_file_name)
          /\ upOutcome' = "returned"
          /\ upPc' = "done"
       \/ /\ upPc' = "except"
          /\ UNCHANGED <<local_files, upOutcome>>
    /\ UNCHANGED <<uploader, source_file_name, bucket_objects, existed>>

\* `except Exception`: the error is logged and raised again (bucket.py 31-33,
\* gcs.py 52-54, cloudflare_r2.py 40-42).
UploadExcept ==
    /\ UNCHANGED notUp
    /\ upPc = "except"
    /\ upOutcome' = "raised"
    /\ upPc' = "done"
    /\ UNCHANGED <<uploader, source_file_name, local_files, bucket_objects, existed>>

\* The caller has the URL or the exception; it may write the file again.
UploadReturned ==
    /\ UNCHANGED notUp
    /\ upPc = "done"
    /\ upPc' = "idle"
    /\ \E written \in SUBSET LocalFiles : local_files' = local_files \cup written
    /\ UNCHANGED <<uploader, source_file_name, bucket_objects, existed, upOutcome>>

(***************************************************************************)
(* pubsub/baseconsumer.py : handle_task_info and process_task              *)
(***************************************************************************)
MaxTasks == 1          \* messages delivered to callback in one behaviour

\* str.lower() on the strings the model uses.
Lower(s) ==
    CASE s = "Succeeded" -> "succeeded"
      [] s = "Video" -> "video"
      [] OTHER -> s

\* What get_task_result(detect_id) returns: None (no task, or the request
\* failed), a body without `data`, or a body whose `data` holds the fields
\* handle_task_info reads. A string field that is absent has the value
\* "absent"; duration, width and height are <<>> when absent and <<n>> when
\* they hold the number n.
NoTask(kind) ==
    [kind |-> kind, task_status |-> "absent", output_data |-> "absent",
     input_data |-> "absent", convert_url |-> "absent", media_type |-> "absent",
     duration |-> <<>>, width |-> <<>>, height |-> <<>>]

TaskResults ==
    {NoTask("None"), NoTask("no_data")}
    \cup {[NoTask("task") EXCEPT !.task_status = st, !.output_data = o] :
            st \in {"absent", "failed", "succeeded"}, o \in {"absent", "empty"}}
    \cup {[NoTask("task") EXCEPT !.task_status = st, !.output_data = "dict"] :
            st \in {"absent", "failed"}}
    \cup {[kind |-> "task", task_status |-> st, output_data |-> "dict",
           input_data |-> i, convert_url |-> c, media_type |-> mt,
           duration |-> d, width |-> wh[1], height |-> wh[2]] :
            st \in {"succeeded", "Succeeded"},
            i \in {"absent", "None", "dict"},
            c \in {"absent", "c1"},
            mt \in {"absent", "", "image", "gif", "Video", "audio"},
            d \in {<<>>, <<0 - 1>>, <<0>>, <<5>>},
            wh \in {<<w, <<480>>>> : w \in {<<>>, <<0>>, <<640>>}}
                   \cup {<<<<640>>, h>> : h \in {<<>>, <<0>>}}}

\* dict.get(key, default) for a string field and for a number field.
Get(field, default) == IF field = "absent" THEN default ELSE field
GetNumber(field, default) == IF field = <<>> THEN default ELSE field[1]

\* `not value` for output.get('width') and output.get('height').
NotNumber(field) == field = <<>> \/ field[1] = 0

\* Line 327 with `<` for `<=`.
DurationNegative(duration) == duration < 0

\* Line 327: `duration <= 0`.
DurationInvalid(duration) == duration <= 0

\* Lines 284-345. The value returned is (target_url, media_type, width,
\* height); every failure is raised again by the except of lines 347-349.
handle_task_info(td, target_url) ==
    LET failed(cls) == [raised |-> cls, value |-> <<>>]
        input_url == IF td.input_data = "dict" THEN "i1" ELSE ""
        convert_url == Get(td.convert_url, "")
        target == IF target_url = ""
                  THEN IF convert_url # "" THEN convert_url ELSE input_url
                  ELSE target_url
        duration == GetNumber(td.duration, 0)
        media_type == Lower(Get(td.media_type, ""))
    IN  IF td.kind = "None" THEN failed("ValueError")
        ELSE IF td.kind = "no_data" THEN failed("ValueError")
        ELSE IF Lower(Get(td.task_status, "")) # "succeeded" THEN failed("ValueError")
        ELSE IF td.output_data \in {"absent", "empty"} THEN failed("ValueError")
        ELSE IF td.input_data = "None" THEN failed("AttributeError")
        ELSE IF media_type = "" THEN failed("ValueError")
        ELSE IF media_type \notin {"video", "gif", "image"} THEN failed("ValueError")
        ELSE IF media_type \in {"video", "gif"} /\ DurationInvalid(duration)
             THEN failed("ValueError")
        ELSE IF NotNumber(td.width) \/ NotNumber(td.height)
             THEN failed("ValueError")
        ELSE [raised |-> "none",
              value |-> <<target, media_type, td.width[1], td.height[1]>>]

NoInfo == [raised |-> "none", value |-> <<>>]

PtIdle ==
    /\ ptPc = "idle"
    /\ task_data = NoTask("None")
    /\ info = NoInfo
    /\ ptFiles = {}
    /\ ptOps = {}
    /\ ptResult = "none"

\* An exception of class cls leaves the try block of process_task for its
\* finally block.
PtRaise(cls) ==
    /\ ptResult' = cls
    /\ ptPc' = "finally"

\* Line 470 and lines 368-376, 285: callback calls process_task, whose first
\* call asks the tracker for the detection task.
PtCall ==
    /\ UNCHANGED notPt
    /\ cpc = "process"
    /\ ptPc = "idle"
    /\ task_data' \in TaskResults
    /\ info' = NoInfo
    /\ ptOps' = {}
    /\ ptResult' = "none"
    /\ ptPc' = "info"
    /\ UNCHANGED ptFiles

\* Line 377: handle_task_info returns the media description or raises;
\* lines 378-380 then name the three temporary files.
HandleTaskInfo ==
    /\ UNCHANGED notPt
    /\ ptPc = "info"
    /\ info' = handle_task_info(task_data, cb.validated[3])
    /\ IF info'.raised # "none"
       THEN PtRaise(info'.raised)
       ELSE /\ ptPc' = "download_source"
            /\ UNCHANGED ptResult
    /\ UNCHANGED <<task_data, ptFiles, ptOps>>

\* download_file (lines 229-267, called at lines 382-383): the file
\* is written, or the request or the size check raises and nothing is left.
\* A URL without a scheme makes requests.get raise.
DownloadFile(url, name, next) ==
    /\ ptOps' = ptOps \cup {"download_" \o name}
    /\ \/ /\ url # ""
          /\ ptFiles' = ptFiles \cup {name}
          /\ ptPc' = next
          /\ UNCHANGED ptResult
       \/ /\ \E cls \in {"RequestException", "ValueError"} :
                 /\ url = "" => cls = "RequestException"
                 /\ PtRaise(cls)
          /\ ptFiles' = ptFiles \ {name}
    /\ UNCHANGED <<task_data, info>>

\* Line 382.
PtDownloadSource ==
    /\ UNCHANGED notPt
    /\ ptPc = "download_source"
    /\ DownloadFile(cb.validated[2], "source", "download_target")

\* Line 383.
PtDownloadTarget ==
    /\ UNCHANGED notPt
    /\ ptPc = "download_target"
    /\ DownloadFile(info.value[1], "target", "swap")

\* Lines 388-393: ModelSwapper.process writes the output file, writes
\* nothing, or raises what conditional_process raised.
PtSwap ==
    /\ UNCHANGED notPt
    /\ ptPc = "swap"
    /\ ptOps' = ptOps \cup {"swap"}
    /\ \/ /\ \E written \in BOOLEAN :
                ptFiles' = IF written THEN ptFiles \cup {"output"} ELSE ptFiles
          /\ ptPc' = "output"
          /\ UNCHANGED ptResult
       \/ /\ PtRaise("Exception")
          /\ UNCHANGED ptFiles
    /\ UNCHANGED <<task_data, info>>

\* Lines 394-397 and 409-411: a missing or empty output raises ValueError; a
\* gif is converted first.
PtOutput ==
    /\ UNCHANGED notPt
    /\ ptPc = "output"
    /\ IF "output" \notin ptFiles
       THEN /\ PtRaise("ValueError")
            /\ UNCHANGED <<ptFiles, ptOps>>
       ELSE IF info.value[2] = "gif"
       THEN /\ ptOps' = ptOps \cup {"convert"}
            /\ \/ /\ ptFiles' = ptFiles \cup {"gif"}
                  /\ ptPc' = "upload"
                  /\ UNCHANGED ptResult
               \/ /\ PtRaise("CalledProcessError")
                  /\ UNCHANGED ptFiles
       ELSE /\ ptPc' = "upload"
            /\ UNCHANGED <<ptFiles, ptOps, ptResult>>
    /\ UNCHANGED <<task_data, info>>

\* Lines 398-408: gcs_utils.upload_file stores the result, removes the
\* local file and returns (True, url), or raises.
PtUpload ==
    /\ UNCHANGED notPt
    /\ ptPc = "upload"
    /\ ptOps' = ptOps \cup {"upload"}
    /\ \/ /\ ptFiles' = ptFiles \ {IF "gif" \in ptFiles THEN "gif" ELSE "output"}
          /\ ptResult' = "u1"
          /\ ptPc' = "finally"
       \/ /\ PtRaise("GoogleAPICallError")
          /\ UNCHANGED ptFiles
    /\ UNCHANGED <<task_data, info>>

\* Lines 412-421: each temporary file that exists is removed; a removal that
\* fails is logged and the file stays.
PtFinally ==
    /\ UNCHANGED notPt
    /\ ptPc = "finally"
    /\ \E kept \in SUBSET ptFiles : ptFiles' = kept
    /\ ptPc' = "done"
    /\ UNCHANGED <<task_data, info, ptOps, ptResult>>

\* process_task returns its URL to line 470 of callback, or its exception
\* reaches the handlers of callback; a falsy URL raises (lines 472-473). The
\* locals of the call are gone, and a file it left behind carries the id of
\* this task, so no later call reads it.
PtReturn ==
    /\ UNCHANGED <<snowVars, tmVars, leaseVars, rtVars, fsVars, stVars, rhVars, fmVars,
                   gfVars, upVars, lkVars, poolVars>>
    /\ cpc = "process"
    /\ ptPc = "done"
    /\ IF ptResult = "u1"
       THEN /\ cb' = [cb EXCEPT !.url = ptResult]
            /\ cpc' = "ack"
       ELSE Raise(ptResult, "process")
    /\ ptPc' = "idle"
    /\ task_data' = NoTask("None")
    /\ info' = NoInfo
    /\ ptFiles' = {}
    /\ ptOps' = {}
    /\ ptResult' = "none"
    /\ UNCHANGED <<count, unacknowledged_messages, db, statusLog, taskCalls,
                   taskStatus, ackState, delivered>>

(***************************************************************************)
(* pubsub/baseconsumer.py : self.lock, self.count and                      *)
(* self.unacknowledged_messages as the subscriber thread (callback) and    *)
(* the thread of start_consumer (lease_management) reach them              *)
(***************************************************************************)
LkIdle ==
    /\ consLock = "free"
    /\ lkPc = "idle"
    /\ iterSize = 0 - 1
    /\ raced = FALSE
    /\ iterError = FALSE

\* The lease loop is inside `for ... in self.unacknowledged_messages.items()`.
Iterating == LoopRunning /\ iterSize >= 0

\* The variables of callback that its accesses to the lock, the counter and
\* the map leave alone.
lkLocals == <<cpc, cb, db, statusLog, taskCalls, taskStatus, ackState>>

\* Line 431 and lines 149-150: a delivered message enters callback, and
\* add_count takes self.lock. max_messages=1 keeps one callback at a time.
AddCountAcquire ==
    /\ UNCHANGED <<notLkCons, lkLocals, leaseVars>>
    /\ streaming
    /\ lkPc = "idle"
    /\ delivered < quota
    /\ consLock = "free"
    /\ consLock' = "callback"
    /\ delivered' = delivered + 1
    /\ lkPc' = "add_count"
    /\ UNCHANGED <<count, unacknowledged_messages, iterSize, raced, iterError>>

\* Lines 150-151: the increment, then the lock is released.
AddCountRelease ==
    /\ UNCHANGED <<notLkCons, lkLocals, leaseVars>>
    /\ lkPc = "add_count"
    /\ count' = count + 1
    /\ consLock' = "free"
    /\ lkPc' = "try"
    /\ UNCHANGED <<delivered, unacknowledged_messages, iterSize, raced, iterError>>

\* Lines 432-450 raise (validation, the insert of the record) and callback
\* goes to its handlers and its finally block without touching the map.
CallbackFails ==
    /\ UNCHANGED <<notLkCons, lkLocals, leaseVars>>
    /\ lkPc = "try"
    /\ lkPc' = "finally"
    /\ UNCHANGED <<count, delivered, unacknowledged_messages, consLock, iterSize,
                   raced, iterError>>

\* Line 453: `self.unacknowledged_messages[message.message_id] = message`,
\* and lines 456-460, which extend the lease or raise.
MapInsert ==
    /\ UNCHANGED <<notLkCons, lkLocals>>
    /\ lkPc = "try"
    /\ unacknowledged_messages' = unacknowledged_messages \cup {"m1"}
    /\ registeredAt' = clock
    /\ \/ deadline' = clock + ack_deadline_seconds
       \/ UNCHANGED deadline
    /\ UNCHANGED renewed
    /\ raced' = (raced \/ (Iterating /\ "m1" \notin unacknowledged_messages))
    /\ lkPc' = "finally"
    /\ UNCHANGED <<count, delivered, consLock, iterSize, iterError>>

\* Lines 541-542, after the work, the handlers and the acknowledgment:
\* `if message.message_id in ...: del ...`; callback returns.
MapDelete ==
    /\ UNCHANGED <<notLkCons, lkLocals>>
    /\ lkPc = "finally"
    /\ unacknowledged_messages' = unacknowledged_messages \ {"m1"}
    /\ deadline' = 0 - 1
    /\ registeredAt' = 0 - 1
    /\ renewed' = FALSE
    /\ raced' = (raced \/ (Iterating /\ "m1" \in unacknowledged_messages))
    /\ lkPc' = "idle"
    /\ UNCHANGED <<count, delivered, consLock, iterSize, iterError>>

\* Line 551: after the sleep the for statement takes an iterator of the map
\* and its first item, and lines 552-557 extend the lease of that message.
\* An empty map ends the loop at once.
IterateBegin ==
    /\ UNCHANGED notLkRt
    /\ LoopRunning
    /\ leasePc = "sleeping"
    /\ clock >= wakeAt
    /\ ~Iterating
    /\ IF unacknowledged_messages = {}
       THEN /\ leasePc' = "ready"
            /\ wakeAt' = 0 - 1
            /\ UNCHANGED <<iterSize, deadline, renewed>>
       ELSE /\ iterSize' = Cardinality(unacknowledged_messages)
            /\ renewed' = TRUE
            /\ \/ deadline' = clock + HalfDeadline
               \/ UNCHANGED deadline
            /\ UNCHANGED <<leasePc, wakeAt>>
    /\ UNCHANGED registeredAt
    /\ UNCHANGED <<consLock, lkPc, raced, iterError>>
    /\ UNCHANGED <<entry, mainPc, scPc, stop_event, closed, streaming, retries, topic,
                   quota, clock>>

\* Line 551 again: the iterator is asked for the next item. A dict whose
\* size changed raises RuntimeError, which line 558 logs; otherwise the
\* items are exhausted and the loop ends.
IterateNext ==
    /\ UNCHANGED <<notLkRt, leaseVars>>
    /\ Iterating
    /\ iterError' = (iterError \/ Cardinality(unacknowledged_messages) # iterSize)
    /\ iterSize' = 0 - 1
    /\ leasePc' = "ready"
    /\ wakeAt' = 0 - 1
    /\ UNCHANGED <<consLock, lkPc, raced>>
    /\ UNCHANGED <<entry, mainPc, scPc, stop_event, closed, streaming, retries, topic,
                   quota, clock>>

(***************************************************************************)
(* Specifications                                                          *)
(***************************************************************************)
\* One thread calling generate_id without end, from a fresh generator.
InitSnow == SnowInit(Generators, {1}, Unlimited) /\ TMIdle /\ ConsIdle /\ Subscribed /\ FsIdle /\ StIdle /\ RhIdle /\ FmIdle /\ GfIdle /\ UpIdle /\ PtIdle /\ LkIdle /\ PoolIdle

\* Two threads, MaxCalls calls each, on a generator that may have served calls.
InitSnowMT == SnowInitServed(AllThreads, MaxCalls) /\ TMIdle /\ ConsIdle /\ Subscribed /\ FsIdle /\ StIdle /\ RhIdle /\ FmIdle /\ GfIdle /\ UpIdle /\ PtIdle /\ LkIdle /\ PoolIdle

NextSnow ==
    \/ \E th \in AllThreads : Call(th)
    \/ \E th \in AllThreads : Acquire(th)
    \/ \E th \in AllThreads : ReadClock(th)
    \/ \E th \in AllThreads : UpdateSequence(th)
    \/ \E th \in AllThreads : WaitNextMillis(th)
    \/ \E th \in AllThreads : StoreAndReturn(th)

SpecSnow == InitSnow /\ [][NextSnow]_vars

\* One thread, MaxCalls calls, on a generator that has issued the last or
\* the last but one sequence number of some millisecond.
InitSnowWrap ==
    /\ \E g \in DefaultGenerator :
          /\ EPOCH = g[1]
          /\ datacenter_id = g[2]
          /\ worker_id = g[3]
    /\ sequence \in {MAX_SEQUENCE - 1, MAX_SEQUENCE}
    /\ last_timestamp \in ClockReadings
    /\ returned = <<[th |-> 0, id |-> ComposeId(last_timestamp, sequence),
                    ts |-> last_timestamp, seq |-> sequence]>>
    /\ maxIssued = ComposeId(last_timestamp, sequence)
    /\ lastIssued = ComposeId(last_timestamp, sequence)
    /\ lock = 0
    /\ threads = {1}
    /\ gpc = [th \in AllThreads |-> "idle"]
    /\ timestamp = [th \in AllThreads |-> -1]
    /\ reading = [th \in AllThreads |-> -1]
    /\ budget = [th \in AllThreads |-> MaxCalls]
    /\ TMIdle /\ ConsIdle /\ Subscribed /\ FsIdle /\ StIdle /\ RhIdle /\ FmIdle
    /\ GfIdle /\ UpIdle /\ PtIdle /\ LkIdle /\ PoolIdle
SpecSnowWrap == InitSnowWrap /\ [][NextSnow]_vars
SpecSnowMT == InitSnowMT /\ [][NextSnow]_vars

\* The task-tracking client, one call after another.
InitTM == SnowInit(DefaultGenerator, {}, 0) /\ TMIdle /\ ConsIdle /\ Subscribed /\ FsIdle /\ StIdle /\ RhIdle /\ FmIdle /\ GfIdle /\ UpIdle /\ PtIdle /\ LkIdle /\ PoolIdle
NextTM == TMCall \/ TMAttempt
SpecTM == InitTM /\ [][NextTM]_vars

\* The consumer handling the messages delivered to callback, one at a time.
InitConsumer == SnowInit(DefaultGenerator, {}, 0) /\ TMIdle /\ ConsIdle /\ Subscribed /\ FsIdle /\ StIdle /\ RhIdle /\ FmIdle /\ GfIdle /\ UpIdle /\ PtIdle /\ LkIdle /\ PoolIdle
NextConsumer ==
    \/ Deliver
    \/ Validate
    \/ CreateRecord
    \/ TaskRunning
    \/ ExtendLease
    \/ DbRunning
    \/ ProcessTask
    \/ AckWithResponse
    \/ DbSucceeded
    \/ TaskSucceeded
    \/ HandleTask
    \/ HandleDb
    \/ Cleanup
    \/ Return
SpecConsumer == InitConsumer /\ [][NextConsumer]_vars

\* A consumer started by either entry point, with time passing.
InitRuntime ==
    SnowInit(DefaultGenerator, {}, 0) /\ TMIdle /\ ConsIdle /\ Started(Entries, Jobs, 1)
    /\ FsIdle /\ StIdle /\ RhIdle /\ FmIdle /\ GfIdle /\ UpIdle /\ PtIdle /\ LkIdle /\ PoolIdle
NextRuntime ==
    \/ CreateLeaseTask
    \/ WhileNotStopped
    \/ Subscribe
    \/ FutureResult
    \/ OnException
    \/ RunUntilComplete
    \/ LeaseWhile
    \/ LeaseRenew
    \/ Interrupt
    \/ Shutdown
    \/ Tick
    \/ Deliver
    \/ Validate
    \/ CreateRecord
    \/ TaskRunning
    \/ ExtendLease
    \/ DbRunning
    \/ ProcessTask
    \/ AckWithResponse
    \/ DbSucceeded
    \/ TaskSucceeded
    \/ HandleTask
    \/ HandleDb
    \/ Cleanup
    \/ Return
SpecRuntime == InitRuntime /\ [][NextRuntime]_vars

\* start_consumer under either entry point on a subscription that delivers
\* nothing, with time passing without end.
InitStart ==
    SnowInit(DefaultGenerator, {}, 0) /\ TMIdle /\ ConsIdle /\ Started(Entries, {}, 0)
    /\ FsIdle /\ StIdle /\ RhIdle /\ FmIdle /\ GfIdle /\ UpIdle /\ PtIdle /\ LkIdle /\ PoolIdle
NextStart ==
    \/ CreateLeaseTask
    \/ WhileNotStopped
    \/ Subscribe
    \/ FutureResult
    \/ OnException
    \/ RunUntilComplete
    \/ LeaseWhile
    \/ LeaseRenew
    \/ Interrupt
    \/ Shutdown
    \/ Tick
    \/ Rebase
SpecStart == InitStart /\ [][NextStart]_vars

\* The thread of start_consumer, the event loop it runs and the entry
\* point's main thread each take their next step, and time passes; the
\* streaming pull ends once its client is closed. Neither an interrupt nor a
\* failure of the subscription has to come.
FairStart ==
    /\ WF_vars(CreateLeaseTask)
    /\ WF_vars(WhileNotStopped)
    /\ WF_vars(Subscribe)
    /\ WF_vars(FutureResult /\ closed)
    /\ WF_vars(OnException)
    /\ WF_vars(RunUntilComplete)
    /\ WF_vars(LeaseWhile)
    /\ WF_vars(LeaseRenew)
    /\ WF_vars(Shutdown)
    /\ WF_vars(Tick)
    /\ WF_vars(Rebase)
SpecStartFair == SpecStart /\ FairStart

\* upload_file of the three implementations, one call after the other.
InitUpload ==
    SnowInit(DefaultGenerator, {}, 0) /\ TMIdle /\ ConsIdle /\ Subscribed /\ FsIdle
    /\ StIdle /\ RhIdle /\ FmIdle /\ GfIdle /\ UpIdle /\ PtIdle /\ LkIdle /\ PoolIdle
NextUpload ==
    \/ UploadFile
    \/ Transfer
    \/ RemoveSource
    \/ UploadExcept
    \/ UploadReturned
SpecUpload == InitUpload /\ [][NextUpload]_vars

\* callback with process_task in detail, for messages that pass validation
\* when they are read in time.
TaskMessages ==
    {m \in Messages :
        /\ m.body = "json" /\ m.source_url /\ m.detect_id /\ m.task_id = "t1"
        /\ m.timeout_at = [kind |-> "time", t |-> MaxTime]}
InitTask ==
    SnowInit(DefaultGenerator, {}, 0) /\ TMIdle /\ ConsIdle /\ FsIdle
    /\ StIdle /\ RhIdle /\ FmIdle /\ GfIdle /\ UpIdle /\ PtIdle /\ LkIdle /\ PoolIdle
    /\ entry = "pool" /\ topic = TaskMessages /\ quota = MaxTasks
    /\ mainPc = "waiting" /\ scPc = "result" /\ stop_event = FALSE
    /\ closed = FALSE /\ streaming = TRUE /\ leasePc = "created"
    /\ wakeAt = 0 - 1 /\ retries = 0 /\ clock = 0
NextTask ==
    \/ Deliver
    \/ Validate
    \/ CreateRecord
    \/ TaskRunning
    \/ ExtendLease
    \/ DbRunning
    \/ PtCall
    \/ HandleTaskInfo
    \/ PtDownloadSource
    \/ PtDownloadTarget
    \/ PtSwap
    \/ PtOutput
    \/ PtUpload
    \/ PtFinally
    \/ PtReturn
    \/ AckWithResponse
    \/ DbSucceeded
    \/ TaskSucceeded
    \/ HandleTask
    \/ HandleDb
    \/ Cleanup
    \/ Return
SpecTask == InitTask /\ [][NextTask]_vars

\* start_consumer under either entry point with the subscriber thread and
\* the lease loop at the lock, the counter and the map.
InitLock ==
    SnowInit(DefaultGenerator, {}, 0) /\ TMIdle /\ ConsIdle
    /\ Started(Entries, {}, MaxDeliveries)
    /\ FsIdle /\ StIdle /\ RhIdle /\ FmIdle /\ GfIdle /\ UpIdle /\ PtIdle /\ LkIdle /\ PoolIdle
NextLock ==
    \/ CreateLeaseTask
    \/ WhileNotStopped
    \/ Subscribe
    \/ FutureResult
    \/ OnException
    \/ RunUntilComplete
    \/ LeaseWhile
    \/ IterateBegin
    \/ IterateNext
    \/ Interrupt
    \/ Shutdown
    \/ Tick
    \/ Rebase
    \/ AddCountAcquire
    \/ AddCountRelease
    \/ CallbackFails
    \/ MapInsert
    \/ MapDelete
SpecLock == InitLock /\ [][NextLock]_vars

\* The entry point of baseconsumer.py (lines 606-623): the consumers of one
\* process, each calling ModelSwapper.process for its own tasks.
InitPool ==
    /\ SnowInit(DefaultGenerator, {}, 0) /\ TMIdle /\ ConsIdle /\ Subscribed /\ FsIdle
    /\ StIdle /\ RhIdle /\ FmIdle /\ GfIdle /\ UpIdle /\ PtIdle /\ LkIdle /\ PoolIdle

NextPool ==
    \E c \in PoolConsumers :
        \/ PoolProcess(c)
        \/ SetSourcePaths(c)
        \/ SetTargetPath(c)
        \/ SetOutputPath(c)
        \/ SetImageResolution(c)
        \/ SetVideoResolution(c)
        \/ ConditionalProcess(c)
        \/ PipelineOutput(c)
        \/ PoolReturn(c)

SpecPool == InitPool /\ [][NextPool]_vars

\* One face-swap job on a video (process_frames) or an image (process_image).
InitSwap ==
    SnowInit(DefaultGenerator, {}, 0) /\ TMIdle /\ ConsIdle /\ Subscribed /\ FsInit /\ StIdle /\ RhIdle /\ FmIdle /\ GfIdle /\ UpIdle /\ PtIdle /\ LkIdle /\ PoolIdle
NextSwap == ProcessFrames \/ ProcessFrame \/ NextPayload \/ ProcessImage
SpecSwap == InitSwap /\ [][NextSwap]_vars

\* One StorageManager and any sequence of calls on it.
InitStorage ==
    SnowInit(DefaultGenerator, {}, 0) /\ TMIdle /\ ConsIdle /\ Subscribed /\ FsIdle
    /\ StInit /\ RhIdle /\ FmIdle /\ GfIdle /\ UpIdle /\ PtIdle /\ LkIdle /\ PoolIdle
NextStorage == Initialize \/ RegisterProvider \/ UploadBinary \/ GetProvider
SpecStorage == InitStorage /\ [][NextStorage]_vars

\* The serverless worker: handler(job) called for one job after the other.
InitRunpod ==
    SnowInit(DefaultGenerator, {}, 0) /\ TMIdle /\ ConsIdle /\ Subscribed /\ FsIdle
    /\ StIdle /\ RhIdle /\ FmIdle /\ GfIdle /\ UpIdle /\ PtIdle /\ LkIdle /\ PoolIdle
NextRunpod ==
    \/ Receive
    \/ ValidateInput
    \/ EnsureInitialized
    \/ Download
    \/ FaceSwap
    \/ Respond
    \/ HandlerExcept
    \/ Returned
SpecRunpod == InitRunpod /\ [][NextRunpod]_vars

\* The HTTP service's manager: process_face_swap called for one request
\* after the other.
InitManager ==
    SnowInit(DefaultGenerator, {}, 0) /\ TMIdle /\ ConsIdle /\ Subscribed /\ FsIdle
    /\ StIdle /\ RhIdle /\ FmIdle /\ GfIdle /\ UpIdle /\ PtIdle /\ LkIdle /\ PoolIdle
NextManager ==
    \/ FmCall
    \/ DownloadSource
    \/ DownloadTarget
    \/ VerifyFiles
    \/ HeadlessProcess
    \/ CopyOutput
    \/ FmExcept
    \/ FmFinally
    \/ FmReturned
SpecManager == InitManager /\ [][NextManager]_vars

\* get_file_info called for one file after the other.
InitFileInfo ==
    SnowInit(DefaultGenerator, {}, 0) /\ TMIdle /\ ConsIdle /\ Subscribed /\ FsIdle
    /\ StIdle /\ RhIdle /\ FmIdle /\ GfIdle /\ UpIdle /\ PtIdle /\ LkIdle /\ PoolIdle
NextFileInfo ==
    \/ GfCall
    \/ ImageRatio
    \/ ImageScale
    \/ ImageMin
    \/ ImageReturn
    \/ VideoProbe
    \/ VideoRatio
    \/ VideoScale
    \/ VideoReturn
    \/ GfReturned
SpecFileInfo == InitFileInfo /\ [][NextFileInfo]_vars

(***************************************************************************)
(* Claims                                                                  *)
(***************************************************************************)
\* C1: over any sequence of generate_id calls on one generator and any clock
\* readings, also readings that move backward, every returned ID is greater
\* than every ID returned before it: the IDs are pairwise distinct and each
\* is greater than or equal to the one returned before it.
C1_DistinctAndNonDecreasing ==
    [][\A th \in AllThreads :
          (gpc[th] = "store" /\ gpc'[th] = "idle")
             => (lastIssued' > maxIssued /\ lastIssued' >= lastIssued)]_vars

\* C1 witness: a call whose clock reading lies before last_timestamp is about
\* to return, after earlier IDs were returned.
C1_Witness ==
    /\ gpc[1] = "store"
    /\ reading[1] < last_timestamp
    /\ lastIssued >= 0
    /\ budget[1] = Unlimited

\* C2: whatever the interleaving of the threads calling generate_id on one
\* generator, no ID is returned twice, to the same or to different threads.
C2_NoDuplicateAcrossThreads ==
    \A i, j \in 1..Len(returned) :
        i # j => returned[i].id # returned[j].id

\* C2 witness: both threads have received IDs, and one thread waits for the
\* lock while the other is inside the critical section.
C2_Witness ==
    /\ \E i, j \in 1..Len(returned) : returned[i].th = 1 /\ returned[j].th = 2
    /\ \E a, b \in AllThreads : a # b /\ gpc[a] = "lock" /\ gpc[b] \in {"seq", "store"}

\* C3: the bit fields of every returned ID do not overlap: bits 17..21 hold
\* datacenter_id, bits 12..16 hold worker_id, bits 0..11 hold the sequence
\* number used and the bits from 22 up hold the timestamp used minus the epoch.
C3_FieldsDecode ==
    \A i \in 1..Len(returned) :
        LET r == returned[i] IN
        /\ ShiftRight(r.id, 17) % 32 = datacenter_id
        /\ ShiftRight(r.id, 12) % 32 = worker_id
        /\ r.id % 4096 = r.seq
        /\ ShiftRight(r.id, 22) = r.ts - EPOCH

\* C3 witness: an ID with a non-zero sequence number, non-zero datacenter and
\* worker ids and a timestamp after the epoch has been returned.
C3_Witness ==
    \E i \in 1..Len(returned) :
        /\ returned[i].th # 0
        /\ returned[i].seq > 0
        /\ returned[i].ts > EPOCH
        /\ datacenter_id > 0
        /\ worker_id > 0

\* ---- TaskManager ----
IsFirst5xx == Len(responses) >= 1 /\ responses[1].kind = "response"
                 /\ responses[1].status >= 500 /\ responses[1].status < 600

IsSuccessResponse(o) ==
    /\ o.kind = "response"
    /\ o.status >= 200 /\ o.status < 300
    /\ o.body \in {"task_id", "json"}

\* C4: create_task, update_task and get_task_result send at most 2 requests
\* per call; a call whose first response is a 5xx pauses exactly once and
\* sends exactly one more request; it returns the successful result when the
\* second response is a success, and None or false when it is a 5xx again.
C4_OneRetryOn5xx ==
    /\ Len(responses) <= 2
    /\ (tmPc = "done" /\ IsFirst5xx) =>
          /\ Len(responses) = 2
          /\ sleeps = 1
          /\ IsSuccessResponse(responses[2]) =>
                tmResult = (CASE tmOp = "create_task" -> "task_id"
                              [] tmOp = "update_task" -> "True"
                              [] OTHER -> "task_data")
          /\ (responses[2].kind = "response" /\ responses[2].status >= 500) =>
                tmResult \in {"None", "False"}

\* C4 witness: a call answered 503 and then 200 has returned its result.
C4_Witness ==
    /\ tmPc = "done"
    /\ Len(responses) = 2
    /\ responses[1].kind = "response" /\ responses[1].status = 503
    /\ responses[2].kind = "response" /\ responses[2].status = 200
    /\ tmResult \in {"task_id", "True", "task_data"}

\* ---- BaseConsumer.callback ----
Terminal == {"succeeded", "failed", "timeout"}

\* The message lacks a field validate_message requires.
Defective(m) ==
    \/ m.body # "json"
    \/ ~m.detect_id
    \/ m.task_id \in {"absent", ""}
    \/ m.timeout_at.kind = "absent"

\* The message has every required field and a well-formed timeout_at.
WellFormed(m) ==
    /\ m.body = "json"
    /\ m.source_url /\ m.detect_id
    /\ m.task_id = "t1"
    /\ m.timeout_at.kind = "time"

\* check_timeout read the clock after the message's timeout_at.
PastDeadline ==
    /\ cpc \notin {"idle", "validate"}
    /\ WellFormed(cb.message)
    /\ cb.current_time > cb.message.timeout_at.t

\* C5: while callback handles a message that lacks detect_id, lacks task_id or
\* has it empty, lacks timeout_at, or whose timeout_at is already past, the
\* faceswapper table does not change (no record is created); and a well-formed
\* message whose timeout_at lies in the future passes validate_message, which
\* returns (detect_id, source_url, target_url, task_id).
C5_RejectedBeforeAnyRecord ==
    [][/\ (cpc # "idle" /\ (Defective(cb.message) \/ PastDeadline)) => db' = db
       /\ (/\ cpc = "validate" /\ cpc' # "validate"
           /\ WellFormed(cb.message)
           /\ cb'.current_time < cb.message.timeout_at.t)
          => /\ cpc' = "create"
             /\ cb'.validated = <<"d1", "s1",
                                  IF cb.message.target_url THEN "g1" ELSE "",
                                  "t1">>]_vars

\* C5 witness: a message that only lacks detect_id has been handled to the
\* end, after an earlier message had passed validation and got its record.
C5_Witness ==
    /\ cpc = "done"
    /\ cb.message.body = "json"
    /\ ~cb.message.detect_id
    /\ cb.message.source_url /\ cb.message.task_id = "t1"
    /\ cb.message.timeout_at.kind = "time"
    /\ cb.request_id = 0
    /\ Len(db) = 1

\* C6: the status values written to each FaceSwapRecord form a prefix of
\* pending, running, then exactly one of succeeded, failed, timeout.
C6_PendingRunningTerminal ==
    \A r \in 1..Len(statusLog) :
        LET l == statusLog[r] IN
        /\ Len(l) <= 3
        /\ Len(l) >= 1 => l[1] = "pending"
        /\ Len(l) >= 2 => l[2] = "running"
        /\ Len(l) >= 3 => l[3] \in Terminal

\* C7: when callback returns, the message has been acknowledged and its
\* message_id is no key of unacknowledged_messages.
C7_AckedAndRemoved ==
    cpc = "done" =>
        /\ ackState = "acked"
        /\ cb.message.message_id \notin unacknowledged_messages

\* C8: a message whose timeout_at has passed at validation time is handled as
\* a Timeout: its external task is updated to timeout and never to failed.
C8_PastDeadlineMarkedTimeout ==
    (cpc = "done" /\ PastDeadline) =>
        /\ \E i \in 1..Len(taskCalls) :
              taskCalls[i] = [task_id |-> cb.message.task_id, status |-> "timeout"]
        /\ \A i \in 1..Len(taskCalls) : taskCalls[i].status # "failed"

RejectedInvalid ==
    /\ cb.failedAt = "validate"
    /\ ~PastDeadline

\* C10: a message rejected as invalid input is surfaced as failed: when it
\* carries a task_id, update_task(task_id, failed) has been called by the time
\* the message is acknowledged, and no such message is acknowledged with no
\* status written anywhere.
C10_InvalidInputMarkedFailed ==
    /\ (cpc = "done" /\ RejectedInvalid /\ cb.message.body = "json"
           /\ cb.message.task_id = "t1") =>
          \E i \in 1..Len(taskCalls) :
              taskCalls[i] = [task_id |-> "t1", status |-> "failed"]
    /\ (cpc = "done" /\ RejectedInvalid) =>
          (taskCalls # <<>> \/ cb.request_id # 0)

\* No write to the record of the current callback raised.
WritesSucceeded == cb.exc # "SQLAlchemyError" /\ ~cb.escaped

\* C11: when callback has created a record and every write to the database
\* succeeded, the record's status is terminal by the time callback returns.
C11_RecordTerminalAtReturn ==
    (cpc = "done" /\ cb.request_id # 0 /\ WritesSucceeded) =>
        db[cb.request_id].status \in Terminal

C11_Witness ==
    /\ cpc = "done"
    /\ cb.request_id # 0
    /\ WritesSucceeded
    /\ cb.failedAt = "process"
    /\ db[cb.request_id].status = "failed"

\* The message of the current callback has been in unacknowledged_messages
\* for more than ack_deadline_seconds / 2 and callback has not reached its
\* finally block's removal yet.
StayedLong ==
    /\ cpc \in {"db_running", "process", "ack", "db_succeeded", "task_succeeded",
                "except", "except_db", "finally"}
    /\ registeredAt >= 0
    /\ clock - registeredAt > HalfDeadline

\* C12: while start_consumer is subscribed (blocked in future.result()), a
\* message that has stayed in unacknowledged_messages longer than
\* ack_deadline_seconds / 2 has had modify_ack_deadline called for it by
\* lease_management before its callback finishes.
C12_RenewedWhileSubscribed ==
    (scPc = "result" /\ cpc = "finally" /\ StayedLong) => renewed

\* Between the synchronous extension and the acknowledgment.
InProgress == cpc \in {"db_running", "process", "ack"} /\ deadline >= 0

\* C13: from the synchronous extension until the acknowledgment, the
\* visibility deadline this consumer set for the message lies strictly in
\* the future.
C13_DeadlineInFuture == InProgress => deadline > clock

\* C13, second part: no call of modify_ack_deadline moves the deadline of a
\* message in progress to an earlier time.
C13_NoRenewalShortens == [][InProgress => deadline' >= deadline]_vars

\* A frame has been processed in reference mode with configured mappings.
MappedFrame ==
    /\ fsPc \in {"written", "done"}
    /\ face_selector_mode = "reference"
    /\ face_mappings # <<>>

\* Mapping k has its two faces and its reference face is closer to the
\* detected face idx than its threshold.
Matches(k, idx) ==
    /\ face_mappings[k].source_face # "None"
    /\ face_mappings[k].reference_face # NoFace
    /\ Distance(many_faces[idx], face_mappings[k].reference_face)
           < Threshold(face_mappings[k])

\* C14: in reference mode with a non-empty face_mappings list no detected face
\* is swapped twice within a frame, and a face that several mappings match is
\* swapped by the earliest of them only.
C14_SwappedOnceByEarliestMapping ==
    MappedFrame =>
        /\ \A i, j \in 1 .. Len(frame) : frame[i].face = frame[j].face => i = j
        /\ \A i \in 1 .. Len(frame) :
              /\ Matches(frame[i].mapping, frame[i].face)
              /\ \A k \in 1 .. (frame[i].mapping - 1) : ~Matches(k, frame[i].face)

C14_Witness ==
    /\ MappedFrame
    /\ Len(face_mappings) = 2
    /\ \E idx \in 1 .. Len(many_faces) :
          /\ Matches(1, idx) /\ Matches(2, idx)
          /\ \E i \in 1 .. Len(frame) : frame[i].face = idx /\ frame[i].mapping = 1

\* No mapping matches any face detected in the frame.
NoMappingMatches ==
    \A k \in 1 .. Len(face_mappings) : \A idx \in 1 .. Len(many_faces) : ~Matches(k, idx)

\* The swaps of the single-reference behaviour: the faces similar to the
\* stored reference faces, each swapped with the face of source_paths.
LegacySwaps ==
    SwapEach(source_faces,
             find_similar_faces(many_faces, reference_store, reference_face_distance),
             <<>>)

\* C15 as stated: in reference mode with a non-empty face_mappings list, a
\* frame in which no mapping matches a detected face gets the swaps of the
\* single-reference behaviour.
C15_LegacyWhenNoMappingMatches ==
    (MappedFrame /\ NoMappingMatches) => frame = LegacySwaps

\* C15 amended: in reference mode with a non-empty face_mappings list, a frame
\* in which no mapping matches a detected face is left without any swap.
C15_NoSwapWhenNoMappingMatches ==
    (MappedFrame /\ NoMappingMatches) => frame = <<>>

C15_Witness ==
    /\ MappedFrame
    /\ NoMappingMatches
    /\ \E k \in 1 .. Len(face_mappings) :
          face_mappings[k].source_face # "None" /\ face_mappings[k].reference_face # NoFace
    /\ LegacySwaps # <<>>
    /\ frame = <<>>

\* C16: in the modes many and one a frame gets the swaps it gets when no
\* face_mappings list is configured: the same faces, with the face of
\* source_paths.
C16_ManyAndOneIgnoreMappings ==
    (fsPc \in {"written", "done"} /\ face_selector_mode \in {"many", "one"}) =>
        frame = process_frame([reference_faces |-> {}, face_mappings |-> <<>>,
                               source_face |-> source_faces],
                              face_selector_mode, many_faces)

\* C17: upload_binary called while the manager is not initialized or holds no
\* provider raises RuntimeError and invokes no provider.
C17_UploadBeforeInitializeRaises ==
    (stOp = "upload_binary" /\ (~initialized \/ providers = {})) =>
        (stResult = "RuntimeError" /\ called = "None")

C17_Witness ==
    /\ stOp = "upload_binary"
    /\ initialized
    /\ providers = {}
    /\ stResult = "RuntimeError"

\* C18: an initialize() call on a manager that was initialized before leaves
\* the registered providers and the default provider as they were, also those
\* registered through register_provider since the first call.
C18_InitializeIdempotent ==
    [][(initialized /\ stOp' = "initialize") =>
          (providers' = providers /\ default_provider' = default_provider)]_vars

C18_Witness ==
    /\ stOp = "initialize"
    /\ providers \ Configured # {}

\* C19: after initialize() exactly the selected provider is registered, as the
\* default, when its settings are complete and its constructor succeeds, and
\* no provider otherwise.
C19_SelectedProviderRegistered ==
    [][(~initialized /\ stOp' = "initialize") =>
          IF config_complete /\ constructs
          THEN providers' = {storage_provider} /\ default_provider' = storage_provider
          ELSE providers' = {}]_vars

\* C20: no response handler returns carries a stack trace.
C20_NoStackTraceInResponse ==
    rhPc = "done" => "traceback" \notin DOMAIN response

\* C21: handler(job) never raises; for a job whose source_url or target_url
\* is missing or empty, or whose resolution string does not hold exactly one
\* 'x', it returns a failure with an error text and the job_id, and neither a
\* download nor a swap was started for the job.
MissingOrEmpty(url) == url = "absent" \/ url = ""

RejectedJob(j) ==
    \/ MissingOrEmpty(j.source_url)
    \/ MissingOrEmpty(j.target_url)
    \/ j.resolution.kind = "str" /\ Count(j.resolution.text, "x") # 1

C21_InvalidJobFailsWithoutWork ==
    /\ rhPc # "raised"
    /\ (rhPc = "done" /\ RejectedJob(job)) =>
          /\ response.status = "failed"
          /\ "error" \in DOMAIN response
          /\ response.job_id = JobId(job)
          /\ started = {}

\* A job with both URLs and resolution 'xx' was answered.
C21_Witness ==
    /\ rhPc = "done"
    /\ job.source_url = "url" /\ job.target_url = "url"
    /\ job.resolution = [kind |-> "str", text |-> <<"x", "x">>]
    /\ response.status = "failed"

\* C22: when process_face_swap returns, whatever the outcome, the temporary
\* directory it created no longer exists and a ProcessResponse is returned.
C22_TempDirGoneAtReturn ==
    (fmPc \in {"returned", "raised"} /\ temp_dir # "none") =>
        /\ fmPc = "returned"
        /\ fmResponse # NoResponse
        /\ temp_dir = "removed"

\* C22 as the code has it: once the directory is created the call returns a
\* ProcessResponse for every outcome, and the directory is gone at the
\* return unless its removal raised, which the cleanup logged as a warning.
C22_TempDirGoneUnlessRemovalFailed ==
    (fmPc \in {"returned", "raised"} /\ temp_dir # "none") =>
        /\ fmPc = "returned"
        /\ fmResponse # NoResponse
        /\ temp_dir = "removed" \/ warned

\* A file validation failure was answered, the directory removed.
C22_Witness ==
    /\ fmPc = "returned"
    /\ fmExc = "ValueError"
    /\ fmResponse.status = "failed"
    /\ temp_dir = "removed"

\* C23: for an image or a video whose width:height ratio is outside
\* [9/21, 21/9], get_file_info raises, and it has not rewritten the file (no
\* thumbnail, save or scale_video) at any point of the call.
OutsideRatio(m) ==
    /\ m.kind \in {"image", "video"}
    /\ m.height > 0
    /\ \/ 9 * m.width > 21 * m.height
       \/ 21 * m.width < 9 * m.height

C23_RatioRejectedBeforeScaling ==
    (gfPc # "idle" /\ OutsideRatio(media)) =>
        /\ gfOps = << >>
        /\ gfPc = "done" => gfOutcome \notin {"none", "Image", "Video"}

\* A video of 4200x1400 (3:1), larger than the limit, was rejected by the
\* ratio check.
C23_Witness ==
    /\ gfPc = "done"
    /\ media = [kind |-> "video", width |-> 4200, height |-> 1400, flag |-> "none"]
    /\ gfOutcome = "ValueError"

\* C24: in start_consumer a failure while no shutdown is requested is
\* followed by the retry wait and a new subscribe, on a new client if the old
\* one is closed; once the stop event is set and the subscription has ended,
\* start_consumer has closed the client when it returns, and it returns.
C24_ClosedAtReturn ==
    /\ [][(scPc = "except" /\ scPc' = "while" /\ ~stop_event) =>
              retries' = retries + 1]_vars
    /\ []((scPc = "returned" /\ stop_event) => closed)
    /\ ((stop_event /\ scPc \in {"except", "while", "finally"}) ~> scPc = "returned")

\* C24 as the code has it: the handler of a failure waits when the stop event
\* is clear and closes the client when it is set; the loop subscribes again,
\* on an open client, exactly when its test finds the stop event clear, and
\* is left when the test finds it set, also after a wait or a normal end of
\* the future, where start_consumer closes nothing; once the stop event is
\* set and start_consumer is not blocked on a subscription, it returns,
\* after the lease task has finished.
C24_RetryUntilStopped ==
    /\ [][/\ (scPc = "except" /\ scPc' = "while" /\ ~stop_event) =>
                retries' = retries + 1 /\ closed' = closed
          /\ (scPc = "except" /\ scPc' = "while" /\ stop_event) =>
                retries' = retries /\ closed'
          /\ (scPc = "while" /\ scPc' # "while") =>
                scPc' = IF stop_event THEN "finally" ELSE "try"
          /\ (scPc = "try" /\ scPc' \in {"result", "except"}) => ~closed'
          /\ (scPc = "finally" /\ scPc' = "returned") => leasePc = "finished"]_vars
    /\ ((stop_event /\ scPc \in {"except", "while", "finally"}) ~> scPc = "returned")

\* start_consumer has returned after a failure handled with the stop event
\* set: the client is closed.
C24_Witness ==
    /\ scPc = "returned"
    /\ stop_event
    /\ closed
    /\ mainPc = "shutdown"

\* C25: in the standalone entry point, once an interrupt has taken
\* start_consumer from the running subscription to its final wait on the
\* lease task, start_consumer ends and consumer.shutdown() is called.
C25_InterruptedTerminates ==
    (entry = "standalone" /\ scPc = "finally" /\ streaming) ~>
        (scPc \in {"returned", "raised"} /\ mainPc = "exited")

\* C26: in every state of the consumer a FaceSwapRecord with a non-empty
\* result_url has status succeeded; a pending, running, failed or timeout
\* record has an empty result_url.
C26_ResultUrlOnlyOnSuccess ==
    \A rid \in DOMAIN db : db[rid].result_url # "" => db[rid].status = "succeeded"

\* process_task had returned a URL, and the record was written failed or
\* timeout by the handler.
C26_Witness ==
    /\ cpc = "finally"
    /\ cb.url # ""
    /\ cb.request_id # 0
    /\ db[cb.request_id].status \in {"failed", "timeout"}
    /\ db[cb.request_id].result_url = ""

\* C30: in callback the record is written succeeded only after process_task
\* returned a URL and the acknowledgment was confirmed; when the wait for the
\* confirmation raises, neither the record nor the external task is marked
\* succeeded by this callback.
MarkedSucceeded ==
    \/ /\ cb.request_id # 0
       /\ \E i \in DOMAIN statusLog[cb.request_id] :
             statusLog[cb.request_id][i] = "succeeded"
    \/ \E i \in DOMAIN taskCalls : taskCalls[i].status = "succeeded"

C30_SucceededOnlyAfterConfirmedAck ==
    cpc # "idle" =>
        /\ MarkedSucceeded => cb.url # "" /\ cb.acked
        /\ cb.failedAt = "ack" => ~MarkedSucceeded

\* The wait for the confirmation raised and callback has written the record.
C30_Witness ==
    /\ cpc = "finally"
    /\ cb.failedAt = "ack"
    /\ cb.url # ""
    /\ cb.request_id # 0
    /\ Len(statusLog[cb.request_id]) = 3

\* C27: when the first attempt of create_task, update_task or
\* get_task_result fails with a 4xx status or with a transport error that
\* carries no response, no second request is sent and the call returns None
\* (update_task: false).
FirstFailsNon5xx ==
    /\ Len(responses) >= 1
    /\ \/ /\ responses[1].kind = "response"
          /\ responses[1].status >= 400 /\ responses[1].status < 500
       \/ /\ responses[1].kind = "exception"
          /\ responses[1].status = 0

C27_NoRetryOnNon5xx ==
    (tmOp \in TMOps /\ FirstFailsNon5xx) =>
        /\ Len(responses) = 1
        /\ sleeps = 0
        /\ tmPc = "done"
        /\ tmResult = IF tmOp = "update_task" THEN "False" ELSE "None"

\* Each of the three methods has returned after one 404 answer.
C27_Witness ==
    /\ tmPc = "done"
    /\ tmOp = "get_task_result"
    /\ Len(responses) = 1
    /\ responses[1].kind = "response" /\ responses[1].status = 404
    /\ tmResult = "None"

\* C28: create_task returns None, without raising, for every 2xx response
\* whose body carries no task_id: an empty task_id, a `data` object without
\* task_id, or no `data` object.
C28_NoTaskIdReturnsNone ==
    (/\ tmPc = "done"
     /\ tmOp = "create_task"
     /\ responses[Len(responses)].kind = "response"
     /\ responses[Len(responses)].status >= 200
     /\ responses[Len(responses)].status < 300
     /\ responses[Len(responses)].body \in {"empty_task_id", "no_task_id", "no_data"})
    => tmResult = "None"

DetectionInvalid ==
    /\ ptPc \notin {"idle", "info"}
    /\ info.raised # "none"

\* C31: a message whose detection task is absent, not succeeded or without
\* valid media metadata has created no FaceSwapRecord and has made no
\* update_task call with the status running.
C31_NoRecordForInvalidDetection ==
    DetectionInvalid =>
        /\ cb.request_id = 0
        /\ db = <<>>
        /\ \A i \in 1 .. Len(taskCalls) : taskCalls[i].status # "running"

\* What the claim requires of a detection task for a normal return.
DetectionValid(td) ==
    /\ td.kind = "task"
    /\ td.task_status \in {"succeeded", "Succeeded"}
    /\ td.output_data = "dict"
    /\ td.media_type \in {"image", "gif", "video", "Video"}
    /\ td.width # <<>> /\ td.width[1] # 0
    /\ td.height # <<>> /\ td.height[1] # 0
    /\ td.media_type \in {"gif", "video", "Video"} =>
           td.duration # <<>> /\ td.duration[1] > 0

\* C33: once handle_task_info has ended inside process_task, it returned
\* normally only for a detection task that exists, succeeded, has an output
\* payload, a media kind of image, gif or video, non-zero width and height
\* and, for video or gif, a positive duration; otherwise it raised, and then
\* process_task has made no download and no swap.
C33_InfoReturnsOnlyForValidTask ==
    ptPc \notin {"idle", "info"} =>
        /\ info.raised = "none" => DetectionValid(task_data)
        /\ ~DetectionValid(task_data) => info.raised # "none"
        /\ info.raised # "none" =>
               ptOps \cap {"download_source", "download_target", "swap"} = {}

\* A succeeded gif task with duration 0 was refused and process_task has
\* ended without any download or swap.
C33_Witness ==
    /\ ptPc = "done"
    /\ task_data.kind = "task"
    /\ task_data.task_status = "succeeded"
    /\ task_data.output_data = "dict"
    /\ task_data.media_type = "gif"
    /\ task_data.duration = <<0>>
    /\ task_data.width = <<640>> /\ task_data.height = <<480>>
    /\ info.raised = "ValueError"
    /\ ptResult = "ValueError"
    /\ ptOps = {}

\* C32: the counter is written only by the holder of the consumer's lock,
\* and the map has never been changed by the subscriber thread while the
\* lease loop was iterating it.
C32_MapNeverChangedWhileIterated ==
    /\ lkPc = "add_count" => consLock = "callback"
    /\ ~raced

\* C34: an ID issued right after the ID with the last sequence number of a
\* millisecond carries a later timestamp and sequence 0, also when the call
\* read a clock that had moved back; and a call keeps waiting only while the
\* clock it read is not past the last-seen timestamp.
C34_ExhaustedWaitsForNextMillisecond ==
    /\ \A i \in 1 .. Len(returned) - 1 :
          returned[i].seq = MAX_SEQUENCE =>
              /\ returned[i + 1].ts > returned[i].ts
              /\ returned[i + 1].seq = 0
    /\ \A th \in threads :
          gpc[th] = "wait" => sequence = 0 /\ timestamp[th] <= last_timestamp

\* After the 4096th ID of a millisecond a call read an earlier clock, was
\* pinned, waited, and is about to return sequence 0 in a later millisecond.
C34_Witness ==
    /\ returned[Len(returned)].seq = MAX_SEQUENCE
    /\ gpc[1] = "store"
    /\ reading[1] < last_timestamp
    /\ timestamp[1] > last_timestamp
    /\ sequence = 0

\* C35: after any sequence of register_provider and initialize calls,
\* default_provider is None exactly when no provider is registered and is
\* otherwise the name of a registered provider; get_provider() without a
\* name has not raised while a provider was registered.
C35_DefaultNamesRegisteredProvider ==
    /\ default_provider = "None" <=> providers = {}
    /\ default_provider # "None" => default_provider \in providers
    /\ (stOp = "get_provider()" /\ providers # {}) => stResult = "provider"

\* get_provider() returned the default of a manager whose providers were
\* registered by hand, the first of them without is_default.
C35_Witness ==
    /\ stOp = "get_provider()"
    /\ stResult = "provider"
    /\ ~initialized
    /\ Cardinality(providers) = 2
    /\ called = default_provider
    /\ called = "local"

\* C36: when get_file_info raises ValueError (missing file, no stream, no
\* video stream, duration or size over the limit, ratio out of bounds, a
\* dimension under the minimum) the file was not rewritten during the call:
\* no img.save, no JPEG re-save and no completed scale_video; and a file that
\* has been rewritten is not under the minimum when the minimum is tested.
Rewrites == {"save", "save jpeg", "scale_video"}

Rewritten == \E i \in DOMAIN gfOps : gfOps[i] \in Rewrites

InPipelineRun(c) == poolPc[c] \in {"conditional_process", "running"}

C37_PipelineReadsOwnJob ==
    \A c \in PoolConsumers :
        InPipelineRun(c) => \A p \in JobParameters : globals[p] = c

\* C38: when callback has returned for a message that passed validation and
\* the FaceSwapRecord of the call is terminal (succeeded, failed or timeout),
\* the external tracker holds the same status, also when a call of
\* update_task failed: the tracker is not left at running.
TerminalStatuses == {"succeeded", "failed", "timeout"}

C38_TrackerFollowsRecord ==
    (/\ cpc = "done"
     /\ cb.task_id # "None"
     /\ cb.request_id # 0
     /\ db[cb.request_id].status \in TerminalStatuses) =>
        taskStatus = db[cb.request_id].status

====
